---- MODULE Spec2Model ----
(***************************************************************************)
(* Model of the debug-session part of the execution controller:            *)
(* the process-wide session store `debugSessions`, startDebugSession and   *)
(* debuggerCommand (step / continue / next / out / setBreakpoint).         *)
(*                                                                         *)
(* JavaScript arrays are 0-based, TLA+ sequences are 1-based: the model    *)
(* keeps the 0-based pointer of the code (-1 on a fresh session) and reads *)
(* events[ptr] as the (ptr+1)-th element of the sequence.                  *)
(***************************************************************************)
EXTENDS Integers, Sequences, FiniteSets, TLC

VARIABLES
    debugSessions,  \* the session store: sessionId -> [events, pointer, breakpoints]
    req,            \* the body of the request handled last
    res,            \* the response (or the error handed to next()) of that request
    tasks,          \* the requests in flight: request slot -> the handler's locals
    files,          \* the files of TEMP_DIR: path -> content
    serial,         \* the session as the commands leave it when run in arrival order
    client          \* the state of the React component of the client specifications

vars == <<debugSessions, req, res, tasks, files, serial, client>>

\* what the handlers of the request-at-a-time specification leave alone
inflight == <<tasks, files, serial, client>>

---------------------------------------------------------------------------
(* Bounds of the model *)

\* longest trace the tracer produces (besides the scenario traces)
MaxEvents == 3

\* line numbers that occur in the enumerated traces and in setBreakpoint
Lines == {1, 2}
\* call stacks that occur in the enumerated traces
CallStacks == {<<"f">>}
\* the breakpoints arrays of /debug/start requests
BreakpointArrays == {<<>>, <<1>>, <<2, 1>>, <<1, 1>>}
\* the breakpoints array sent with the scenario traces besides
ScenarioBreakpoints == {<<5>>}
\* session ids uuidv4() can return
Uuids == {"u1"}
\* session ids a /debug/command request can carry
RequestIds == {"u1", "u2"}

---------------------------------------------------------------------------
(* JavaScript values *)

\* JSON null
Null == [json |-> "null"]
\* undefined: JSON.stringify omits a key that holds it
Undefined == [json |-> "undefined"]

\* a `line` argument of a request, with its typeof
Num(n) == [type |-> "number", value |-> n]
NoLine == [type |-> "undefined", value |-> 0]
StrLine(n) == [type |-> "string", value |-> n]

\* a JS Set is kept as the sequence of its members in insertion order
SetHas(set, x) == \E i \in 1..Len(set) : set[i] = x
\* mutant of SetAdd: the line is pushed as onto an array
SetAddAlwaysAppends(set, x) == Append(set, x)

SetAdd(set, x) == IF SetHas(set, x) THEN set ELSE Append(set, x)

RECURSIVE NewSet(_)
NewSet(array) ==
    IF array = <<>> THEN <<>>
    ELSE SetAdd(NewSet(SubSeq(array, 1, Len(array) - 1)), array[Len(array)])

\* Array.from(set)
ArrayFrom(set) == set

Members(set) == {set[i] : i \in 1..Len(set)}

MinOf(S) == CHOOSE x \in S : \A y \in S : x <= y

---------------------------------------------------------------------------
(* Trace documents the tracer can print *)

\* a trace event: a line, and a callStack that may be missing
TraceEvents ==
    {[line |-> l] : l \in Lines}
        \cup {[line |-> l, callStack |-> c] : l \in Lines, c \in CallStacks}

Stack(n) == [i \in 1..n |-> "f"]

\* lines 1..6, one frame deep (scenario S4)
TraceS4 == [i \in 1..6 |-> [line |-> i, callStack |-> Stack(1)]]
\* callStack depths 1,1,2,2,1 (scenario S5)
TraceS5 ==
    << [line |-> 1, callStack |-> Stack(1)],
       [line |-> 2, callStack |-> Stack(1)],
       [line |-> 3, callStack |-> Stack(2)],
       [line |-> 4, callStack |-> Stack(2)],
       [line |-> 5, callStack |-> Stack(1)] >>

\* a trace with a missing, an empty and a two-deep callStack
TraceDepths ==
    << [line |-> 1, callStack |-> Stack(2)],
       [line |-> 2, callStack |-> <<>>],
       [line |-> 2, callStack |-> Stack(1)],
       [line |-> 1] >>

ScenarioTraces == {TraceS4, TraceS5, TraceDepths}

Traces == UNION {[1..n -> TraceEvents] : n \in 0..MaxEvents}

\* what the awaited part of startDebugSession can end in
OkOutcome(traces) == [kind |-> "ok", traces |-> traces]
FailedOutcomes == {[kind |-> "statusError"], [kind |-> "throws"]}

---------------------------------------------------------------------------
(* events[ptr] and events[ptr]?.callStack?.length || 0 *)

EventAt(events, ptr) ==
    IF ptr >= 0 /\ ptr < Len(events) THEN events[ptr + 1] ELSE Undefined

CallStackLength(events, ptr) ==
    LET ev == EventAt(events, ptr)
    IN  IF ev = Undefined THEN 0
        ELSE IF "callStack" \in DOMAIN ev THEN Len(ev.callStack)
        ELSE 0

ErrorHandler(statusCode, message) ==
    [status |-> statusCode, message |-> message]

---------------------------------------------------------------------------
(* Init and startDebugSession *)

\* no request in flight, an empty TEMP_DIR
NoTasks == [t \in {} |-> Null]
NoFiles == [f \in {} |-> Null]

Init ==
    /\ debugSessions = [id \in {} |-> Null]
    /\ req = [handler |-> "none"]
    /\ res = [status |-> 0]
    /\ tasks = NoTasks
    /\ files = NoFiles
    /\ serial = Null
    /\ client = Null

NewSession(traces, breakpoints) ==
    [events |-> traces, pointer |-> -1, breakpoints |-> NewSet(breakpoints)]

\* startDebugSession where uuidv4() draws the new id from `uuids`
StartDebugSessionFrom(uuids, language, breakpoints, outcome) ==
    /\ req' = [handler |-> "startDebugSession", language |-> language,
               breakpoints |-> breakpoints]
    /\ IF language # "python"
       THEN /\ res' = ErrorHandler(400, "Only python debugging supported.")
            /\ UNCHANGED debugSessions
       ELSE IF outcome.kind = "throws"
       THEN /\ res' = [status |-> 200, error |-> TRUE, message |-> "err.message"]
            /\ UNCHANGED debugSessions
       ELSE IF outcome.kind = "statusError"
       THEN /\ res' = [status |-> 200, error |-> TRUE, message |-> "data.error"]
            /\ UNCHANGED debugSessions
       ELSE \E sessionId \in uuids \ DOMAIN debugSessions :
            /\ debugSessions' =
                   [id \in DOMAIN debugSessions \cup {sessionId} |->
                       IF id = sessionId
                       THEN NewSession(outcome.traces, breakpoints)
                       ELSE debugSessions[id]]
            /\ res' = [status |-> 200, sessionId |-> sessionId]

StartDebugSession(language, breakpoints, outcome) ==
    StartDebugSessionFrom(Uuids, language, breakpoints, outcome)

---------------------------------------------------------------------------
(* debuggerCommand *)

\* the commands a request can carry; "restart" stands for any unknown one
Commands == {"step", "continue", "next", "out", "setBreakpoint", "restart"}

LineArgs == {Num(l) : l \in Lines} \cup {NoLine, StrLine(1)}

\* mutant of Clamp: the clamp to the last index is left out
ClampLeftOut(events, ptr) == ptr

\* if (ptr >= events.length) ptr = events.length - 1
Clamp(events, ptr) == IF ptr >= Len(events) THEN Len(events) - 1 ELSE ptr

\* mutant of Advance: past the end the pointer is stored unclamped
AdvanceUnclamped(session) ==
    LET ptr == session.pointer + 1
    IN  [session |-> [session EXCEPT !.pointer = ptr],
         ev |-> IF ptr >= Len(session.events) THEN Null
                ELSE EventAt(session.events, ptr)]

\* the closure advance(): the session it leaves and the value it returns
Advance(session) ==
    LET ptr == session.pointer + 1
    IN  IF ptr >= Len(session.events)
        THEN [session |-> [session EXCEPT !.pointer = Len(session.events) - 1],
              ev |-> Null]
        ELSE [session |-> [session EXCEPT !.pointer = ptr],
              ev |-> EventAt(session.events, ptr)]

\* mutant of StepCommand: done is computed as the other commands compute it
StepCommandDoneAtLast(session) ==
    LET a == Advance(session)
    IN  [session |-> a.session,
         res |-> [status |-> 200, event |-> a.ev,
                  done |-> (a.session.pointer = Len(session.events) - 1)]]

StepCommand(session) ==
    LET a == Advance(session)
    IN  [session |-> a.session,
         res |-> [status |-> 200, event |-> a.ev, done |-> (a.ev = Null)]]

\* mutant of ContinueScan: the negation of breakpoints.has is dropped
RECURSIVE ContinueScanNegationDropped(_, _, _)
ContinueScanNegationDropped(events, breakpoints, ptr) ==
    IF ptr < Len(events) /\ SetHas(breakpoints, EventAt(events, ptr).line)
    THEN ContinueScanNegationDropped(events, breakpoints, ptr + 1)
    ELSE ptr

\* while (ptr < events.length && !breakpoints.has(events[ptr].line)) ptr += 1
RECURSIVE ContinueScan(_, _, _)
ContinueScan(events, breakpoints, ptr) ==
    IF ptr < Len(events) /\ ~SetHas(breakpoints, EventAt(events, ptr).line)
    THEN ContinueScan(events, breakpoints, ptr + 1)
    ELSE ptr

\* mutant of NextScan: skips the events of the same depth too
RECURSIVE NextScanSkipsSameDepth(_, _, _)
NextScanSkipsSameDepth(events, depth, ptr) ==
    IF ptr < Len(events) /\ CallStackLength(events, ptr) >= depth
    THEN NextScanSkipsSameDepth(events, depth, ptr + 1)
    ELSE ptr

\* while (ptr < events.length && (events[ptr].callStack?.length || 0) > depth) ptr += 1
RECURSIVE NextScan(_, _, _)
NextScan(events, depth, ptr) ==
    IF ptr < Len(events) /\ CallStackLength(events, ptr) > depth
    THEN NextScan(events, depth, ptr + 1)
    ELSE ptr

\* mutant of OutScan: stops on an event of the same depth
RECURSIVE OutScanStopsAtSameDepth(_, _, _)
OutScanStopsAtSameDepth(events, depth, ptr) ==
    IF ptr < Len(events) /\ CallStackLength(events, ptr) > depth
    THEN OutScanStopsAtSameDepth(events, depth, ptr + 1)
    ELSE ptr

\* while (ptr < events.length && (events[ptr].callStack?.length || 0) >= depth) ptr += 1
RECURSIVE OutScan(_, _, _)
OutScan(events, depth, ptr) ==
    IF ptr < Len(events) /\ CallStackLength(events, ptr) >= depth
    THEN OutScan(events, depth, ptr + 1)
    ELSE ptr

\* session.pointer = ptr; res.json({ event: events[ptr], done: ptr === events.length - 1 })
Landed(session, ptr) ==
    [session |-> [session EXCEPT !.pointer = ptr],
     res |-> [status |-> 200, event |-> EventAt(session.events, ptr),
              done |-> (ptr = Len(session.events) - 1)]]

\* mutant of ContinueCommand: the scan starts at the first event
ContinueFromStart(session) ==
    Landed(session,
           Clamp(session.events,
                 ContinueScan(session.events, session.breakpoints, 0)))

ContinueCommand(session) ==
    Landed(session,
           Clamp(session.events,
                 ContinueScan(session.events, session.breakpoints,
                              session.pointer + 1)))

\* mutant of NextCommand: the loop of `out` is used
NextCommandAsOut(session) ==
    LET depth == CallStackLength(session.events, session.pointer)
    IN  Landed(session,
               Clamp(session.events,
                     OutScan(session.events, depth, session.pointer + 1)))

\* mutant of NextCommand: the scan starts at the current event
NextFromCurrent(session) ==
    LET depth == CallStackLength(session.events, session.pointer)
    IN  Landed(session,
               Clamp(session.events,
                     NextScan(session.events, depth, session.pointer)))

\* mutant of NextCommand: the depth is read after the pointer has moved on
NextDepthAfterAdvance(session) ==
    LET depth == CallStackLength(session.events, session.pointer + 1)
    IN  Landed(session,
               Clamp(session.events,
                     NextScan(session.events, depth, session.pointer + 1)))

NextCommand(session) ==
    LET depth == CallStackLength(session.events, session.pointer)
    IN  Landed(session,
               Clamp(session.events,
                     NextScan(session.events, depth, session.pointer + 1)))

OutCommand(session) ==
    LET depth == CallStackLength(session.events, session.pointer)
    IN  Landed(session,
               Clamp(session.events,
                     OutScan(session.events, depth, session.pointer + 1)))

\* mutant of SetBreakpointCommand: the session is rewound as the line is added
SetBreakpointCommandResetsPointer(session, line) ==
    LET breakpoints ==
            IF line.type = "number"
            THEN SetAdd(session.breakpoints, line.value)
            ELSE session.breakpoints
    IN  [session |-> [session EXCEPT !.breakpoints = breakpoints,
                                     !.pointer = -1],
         res |-> [status |-> 200, breakpoints |-> ArrayFrom(breakpoints)]]

\* mutant of SetBreakpointCommand: the typeof test is left out
SetBreakpointUnchecked(session, line) ==
    LET breakpoints == SetAdd(session.breakpoints, line.value)
    IN  [session |-> [session EXCEPT !.breakpoints = breakpoints],
         res |-> [status |-> 200, breakpoints |-> ArrayFrom(breakpoints)]]

SetBreakpointCommand(session, line) ==
    LET breakpoints ==
            IF line.type = "number"
            THEN SetAdd(session.breakpoints, line.value)
            ELSE session.breakpoints
    IN  [session |-> [session EXCEPT !.breakpoints = breakpoints],
         res |-> [status |-> 200, breakpoints |-> ArrayFrom(breakpoints)]]

\* mutant of UnknownCommand: the pointer is advanced before the command is refused
UnknownCommandAdvances(session) ==
    [session |-> Advance(session).session,
     res |-> ErrorHandler(400, "Unknown debugger command")]

UnknownCommand(session) ==
    [session |-> session, res |-> ErrorHandler(400, "Unknown debugger command")]

Dispatch(session, command, line) ==
    CASE command = "step" -> StepCommand(session)
      [] command = "continue" -> ContinueCommand(session)
      [] command = "next" -> NextCommand(session)
      [] command = "out" -> OutCommand(session)
      [] command = "setBreakpoint" -> SetBreakpointCommand(session, line)
      [] OTHER -> UnknownCommand(session)

\* mutant of DebuggerCommand: all ids name one session object
DebuggerCommandOnSharedSession(sessionId, command, line) ==
    /\ req' = [handler |-> "debuggerCommand", sessionId |-> sessionId,
               command |-> command, line |-> line]
    /\ IF sessionId \notin DOMAIN debugSessions
       THEN /\ res' = ErrorHandler(404, "Session not found")
            /\ UNCHANGED debugSessions
       ELSE LET result == Dispatch(debugSessions[sessionId], command, line)
            IN  /\ debugSessions' =
                       [id \in DOMAIN debugSessions |-> result.session]
                /\ res' = result.res

\* mutant of DebuggerCommand: the test of the looked-up session is left out,
\* so that destructuring undefined throws
DebuggerCommandWithoutLookupTest(sessionId, command, line) ==
    /\ req' = [handler |-> "debuggerCommand", sessionId |-> sessionId,
               command |-> command, line |-> line]
    /\ IF sessionId \notin DOMAIN debugSessions
       THEN /\ res' = ErrorHandler(500, "TypeError")
            /\ UNCHANGED debugSessions
       ELSE LET result == Dispatch(debugSessions[sessionId], command, line)
            IN  /\ debugSessions' =
                       [debugSessions EXCEPT ![sessionId] = result.session]
                /\ res' = result.res

DebuggerCommand(sessionId, command, line) ==
    /\ req' = [handler |-> "debuggerCommand", sessionId |-> sessionId,
               command |-> command, line |-> line]
    /\ IF sessionId \notin DOMAIN debugSessions
       THEN /\ res' = ErrorHandler(404, "Session not found")
            /\ UNCHANGED debugSessions
       ELSE LET result == Dispatch(debugSessions[sessionId], command, line)
            IN  /\ debugSessions' =
                       [debugSessions EXCEPT ![sessionId] = result.session]
                /\ res' = result.res

---------------------------------------------------------------------------
(* The specification *)

\* a /debug/start request whose tracer run yields a trace document
StartRequest ==
    /\ Uuids \ DOMAIN debugSessions # {}
    /\ UNCHANGED inflight
    /\ \/ \E breakpoints \in BreakpointArrays, traces \in Traces :
              StartDebugSession("python", breakpoints, OkOutcome(traces))
       \/ \E breakpoints \in BreakpointArrays \cup ScenarioBreakpoints,
             traces \in ScenarioTraces :
              StartDebugSession("python", breakpoints, OkOutcome(traces))

\* a /debug/start request that is refused or whose tracer run fails
FailedStartRequest ==
    /\ UNCHANGED inflight
    /\ \/ StartDebugSession("javascript", <<>>, [kind |-> "throws"])
       \/ \E breakpoints \in BreakpointArrays, outcome \in FailedOutcomes :
              StartDebugSession("python", breakpoints, outcome)

\* a /debug/command request; `line` is sent with setBreakpoint only
CommandRequest ==
    /\ UNCHANGED inflight
    /\ \E sessionId \in RequestIds, command \in Commands :
           \E line \in IF command = "setBreakpoint" THEN LineArgs ELSE {NoLine} :
               DebuggerCommand(sessionId, command, line)

Next == StartRequest \/ FailedStartRequest \/ CommandRequest

Spec == Init /\ [][Next]_vars

---------------------------------------------------------------------------
(* The Lang-B requests step by step: python /execute and /debug/start.     *)
(* A handler gives up control at each await (mkdir, writeFile, execFile,   *)
(* unlink), so the handlers of two requests interleave there.              *)

\* the request slots; the code a request submits is named after its slot
Slots == {"r1", "r2"}

\* the uuids uuidv4() returns, in the order of the calls
UuidSequence == <<"u1", "u2", "u3", "u4">>

\* the traces of the trace documents the tracer prints here
TracerTraces == {<<>>, <<[line |-> 1, callStack |-> <<"f">>]>>}
\* the breakpoints arrays of these /debug/start requests
TracerBreakpointArrays == {<<>>, <<1>>, <<1, 1>>}

\* the uuids handed out so far: one per temp file, one per session
UuidsUsed ==
    {tasks[t].uniqueId : t \in DOMAIN tasks} \cup DOMAIN debugSessions

\* mutant of Uuidv4: every call returns the same value
Uuidv4Repeats(used) == UuidSequence[1]

\* uuidv4(): a value no earlier call returned
Uuidv4(used) ==
    UuidSequence[MinOf({i \in 1..Len(UuidSequence) : UuidSequence[i] \notin used})]

\* path.join(TEMP_DIR, `${uniqueId}.py`)
FilePath(uniqueId) == <<"temp", uniqueId, ".py">>

\* JSON.stringify of a breakpoints array
JsonStringify(breakpoints) ==
    CASE breakpoints = <<>> -> "[]"
      [] breakpoints = <<1>> -> "[1]"
      [] breakpoints = <<1, 1>> -> "[1,1]"

TracerPath == "api/utils/pythonTracer.py"

\* the second argument of execFileAsync('python3', ...)
ExecuteArgv(filePath) == <<[arg |-> "path", value |-> TracerPath],
                           [arg |-> "path", value |-> filePath]>>

DebugArgv(filePath, breakpoints) ==
    <<[arg |-> "path", value |-> TracerPath],
      [arg |-> "path", value |-> filePath],
      [arg |-> "json", value |-> JsonStringify(breakpoints)]>>

\* what the tracer can print: the JSON text of a document, or other text
Documents ==
    {[status |-> "ok", traces |-> t, stdout |-> "hello"] : t \in TracerTraces}
        \cup {[status |-> "error", traces |-> <<>>, stdout |-> "",
               error |-> "NameError"]}

Stdouts ==
    {[json |-> TRUE, doc |-> d] : d \in Documents}
        \cup {[json |-> FALSE, text |-> "Traceback"]}

\* how the promise of execFileAsync settles: resolved when the child exits
\* with code 0, rejected when it exits with another code ("Command failed")
\* or is killed at the timeout; stdout is what the child had printed
ExecResults ==
    {[settled |-> "resolved", stdout |-> o] : o \in Stdouts}
        \cup {[settled |-> "rejected", message |-> "Command failed", stdout |-> o] :
                 o \in Stdouts}
        \cup {[settled |-> "rejected", message |-> "timeout", stdout |-> o] :
                 o \in Stdouts \cup {[json |-> FALSE, text |-> ""]}}

\* JSON.parse(stdout)
JsonParse(stdout) ==
    IF stdout.json THEN [ok |-> TRUE, data |-> stdout.doc]
    ELSE [ok |-> FALSE, message |-> "Unexpected token"]

\* the locals of a handler that is not yet at its first await
NewTask(handler, language, code, breakpoints) ==
    [handler |-> handler, language |-> language, code |-> code,
     breakpoints |-> breakpoints, pc |-> "start", uniqueId |-> "",
     argv |-> <<>>, read |-> "", exec |-> Null, res |-> [status |-> 0]]

InitTracer ==
    /\ debugSessions = [id \in {} |-> Null]
    /\ req = [handler |-> "none"]
    /\ res = [status |-> 0]
    /\ tasks = NoTasks
    /\ files = NoFiles
    /\ serial = Null
    /\ client = Null

\* tasks with the locals of slot t replaced
WithTask(t, task) ==
    [x \in DOMAIN tasks \cup {t} |-> IF x = t THEN task ELSE tasks[x]]

\* a request arrives: the handler runs up to its first await or its 400
Receive(t, handler, language, code, breakpoints) ==
    /\ t \notin DOMAIN tasks
    /\ LET task == NewTask(handler, language, code, breakpoints)
           refused ==
               IF handler = "executeCode"
               THEN IF language = "" \/ code = ""
                    THEN ErrorHandler(400, "Language and code are required.")
                    ELSE IF language \notin {"python", "javascript"}
                    THEN ErrorHandler(400, "Unsupported language.")
                    ELSE [status |-> 0]
               ELSE IF language # "python"
                    THEN ErrorHandler(400, "Only python debugging supported.")
                    ELSE [status |-> 0]
       IN  tasks' = WithTask(t, IF refused.status = 400
                                THEN [task EXCEPT !.pc = "done", !.res = refused]
                                ELSE [task EXCEPT !.pc = "mkdir"])
    /\ UNCHANGED <<debugSessions, req, res, files, serial, client>>

\* await fs.promises.mkdir resolves: uuidv4(), the paths, writeFile is called
MkdirDone(t) ==
    /\ t \in DOMAIN tasks
    /\ tasks[t].pc = "mkdir"
    /\ tasks' = [tasks EXCEPT ![t].uniqueId = Uuidv4(UuidsUsed),
                              ![t].pc = "write"]
    /\ UNCHANGED <<debugSessions, req, res, files, serial, client>>

\* the catch block: res.status(200).json({..., error: true, message: err.message})
CatchResponse(handler, message) ==
    IF handler = "executeCode"
    THEN [status |-> 200, events |-> <<>>, output |-> "", error |-> TRUE,
          message |-> message]
    ELSE [status |-> 200, error |-> TRUE, message |-> message]

\* mutant of PcAfterTry: the unlink ends the try block instead of a finally
PcAfterTryWithoutFinally(response) ==
    IF "error" \in DOMAIN response /\ response.error THEN "done" ELSE "unlink"

\* finally { try { await fs.promises.unlink(filePath); } catch {} }
PcAfterTry(response) == "unlink"

\* mutant of SpawnArgv: the breakpoints are passed only when there are some
SpawnArgvOmitsEmptyList(task) ==
    IF task.handler = "executeCode" \/ task.breakpoints = <<>>
    THEN ExecuteArgv(FilePath(task.uniqueId))
    ELSE DebugArgv(FilePath(task.uniqueId), task.breakpoints)

\* the arguments the handler spawns the tracer with
SpawnArgv(task) ==
    IF task.handler = "executeCode"
    THEN ExecuteArgv(FilePath(task.uniqueId))
    ELSE DebugArgv(FilePath(task.uniqueId), task.breakpoints)

\* await fs.promises.writeFile settles; on success execFileAsync is called
\* at once, on failure the catch block answers (a failed write may leave a
\* partial file)
WriteDone(t, ok, partial) ==
    /\ t \in DOMAIN tasks
    /\ tasks[t].pc = "write"
    /\ LET task == tasks[t]
           path == FilePath(task.uniqueId)
           written(content) ==
               [f \in DOMAIN files \cup {path} |->
                   IF f = path THEN content ELSE files[f]]
           response == CatchResponse(task.handler, "ENOSPC")
       IN  IF ok
           THEN /\ files' = written(task.code)
                /\ tasks' = [tasks EXCEPT ![t].argv = SpawnArgv(task),
                                          ![t].pc = "exec"]
           ELSE /\ files' = IF partial THEN written("") ELSE files
                /\ tasks' = [tasks EXCEPT ![t].res = response,
                                          ![t].pc = PcAfterTry(response)]
    /\ UNCHANGED <<debugSessions, req, res, serial, client>>

\* the tracer subprocess opens the source file it was given
TracerRead(t) ==
    /\ t \in DOMAIN tasks
    /\ tasks[t].pc = "exec"
    /\ tasks[t].read = ""
    /\ LET path == tasks[t].argv[2].value
       IN  tasks' = [tasks EXCEPT ![t].read =
                        IF path \in DOMAIN files THEN files[path] ELSE "ENOENT"]
    /\ UNCHANGED <<debugSessions, req, res, files, serial, client>>

\* mutant of ExecuteAfterExec: stdout is parsed however the child ended
ExecuteAfterExecReadsRejectedStdout(result) ==
    LET parsed == JsonParse(result.stdout)
    IN  IF ~parsed.ok
        THEN CatchResponse("executeCode",
                           IF result.settled = "rejected" THEN result.message
                           ELSE parsed.message)
        ELSE IF parsed.data.status = "error"
        THEN [status |-> 200, events |-> parsed.data.traces,
              output |-> parsed.data.stdout, error |-> TRUE,
              message |-> parsed.data.error]
        ELSE [status |-> 200, events |-> parsed.data.traces,
              output |-> parsed.data.stdout, error |-> FALSE]

\* the rest of the try block of executeCode once execFileAsync has settled
ExecuteAfterExec(result) ==
    IF result.settled = "rejected"
    THEN CatchResponse("executeCode", result.message)
    ELSE LET parsed == JsonParse(result.stdout)
         IN  IF ~parsed.ok
             THEN CatchResponse("executeCode", parsed.message)
             ELSE IF parsed.data.status = "error"
             THEN [status |-> 200, events |-> parsed.data.traces,
                   output |-> parsed.data.stdout, error |-> TRUE,
                   message |-> parsed.data.error]
             ELSE [status |-> 200, events |-> parsed.data.traces,
                   output |-> parsed.data.stdout, error |-> FALSE]

\* mutant of DebugAfterExec: the session is stored before data.status is read
DebugAfterExecStoresFirst(task, result, sessionId) ==
    IF result.settled = "rejected"
    THEN [res |-> CatchResponse("startDebugSession", result.message),
          created |-> FALSE]
    ELSE LET parsed == JsonParse(result.stdout)
         IN  IF ~parsed.ok
             THEN [res |-> CatchResponse("startDebugSession", parsed.message),
                   created |-> FALSE]
             ELSE IF parsed.data.status = "error"
             THEN [res |-> [status |-> 200, error |-> TRUE,
                            message |-> parsed.data.error],
                   created |-> TRUE,
                   session |-> NewSession(parsed.data.traces, task.breakpoints)]
             ELSE [res |-> [status |-> 200, sessionId |-> sessionId],
                   created |-> TRUE,
                   session |-> NewSession(parsed.data.traces, task.breakpoints)]

\* the rest of the try block of startDebugSession: the response, and the
\* session it stores under sessionId if it stores one
DebugAfterExec(task, result, sessionId) ==
    IF result.settled = "rejected"
    THEN [res |-> CatchResponse("startDebugSession", result.message),
          created |-> FALSE]
    ELSE LET parsed == JsonParse(result.stdout)
         IN  IF ~parsed.ok
             THEN [res |-> CatchResponse("startDebugSession", parsed.message),
                   created |-> FALSE]
             ELSE IF parsed.data.status = "error"
             THEN [res |-> [status |-> 200, error |-> TRUE,
                            message |-> parsed.data.error],
                   created |-> FALSE]
             ELSE [res |-> [status |-> 200, sessionId |-> sessionId],
                   created |-> TRUE,
                   session |-> NewSession(parsed.data.traces, task.breakpoints)]

\* await execFileAsync settles: the handler answers and enters its finally
ExecSettled(t, result) ==
    /\ t \in DOMAIN tasks
    /\ tasks[t].pc = "exec"
    /\ IF tasks[t].handler = "executeCode"
       THEN LET response == ExecuteAfterExec(result)
            IN  /\ tasks' = [tasks EXCEPT ![t].exec = result,
                                          ![t].res = response,
                                          ![t].pc = PcAfterTry(response)]
                /\ UNCHANGED debugSessions
       ELSE LET sessionId == Uuidv4(UuidsUsed)
                after == DebugAfterExec(tasks[t], result, sessionId)
            IN  /\ tasks' = [tasks EXCEPT ![t].exec = result,
                                          ![t].res = after.res,
                                          ![t].pc = PcAfterTry(after.res)]
                /\ debugSessions' =
                       IF after.created
                       THEN [id \in DOMAIN debugSessions \cup {sessionId} |->
                                IF id = sessionId THEN after.session
                                ELSE debugSessions[id]]
                       ELSE debugSessions
    /\ UNCHANGED <<req, res, files, serial, client>>

\* await fs.promises.unlink settles (its error, when the file is not there,
\* is swallowed): the handler is over
UnlinkDone(t) ==
    /\ t \in DOMAIN tasks
    /\ tasks[t].pc = "unlink"
    /\ files' = [f \in DOMAIN files \ {FilePath(tasks[t].uniqueId)} |-> files[f]]
    /\ tasks' = [tasks EXCEPT ![t].pc = "done"]
    /\ UNCHANGED <<debugSessions, req, res, serial, client>>

\* a python /execute request, or one /execute refuses (the javascript
\* branch of /execute writes no file and is not part of this specification)
ExecuteRequest ==
    \E t \in Slots, language \in {"python", "ruby", ""},
       breakpoints \in {<<>>, <<1>>} :
        \E code \in IF language = "python" THEN {t, ""} ELSE {t} :
            Receive(t, "executeCode", language, code, breakpoints)

\* a /debug/start request
DebugRequest ==
    \E t \in Slots, language \in {"python", "javascript"},
       breakpoints \in TracerBreakpointArrays :
        Receive(t, "startDebugSession", language, t, breakpoints)

NextTracer ==
    \/ ExecuteRequest
    \/ DebugRequest
    \/ \E t \in Slots : MkdirDone(t)
    \/ \E t \in Slots, ok \in BOOLEAN, partial \in BOOLEAN : WriteDone(t, ok, partial)
    \/ \E t \in Slots : TracerRead(t)
    \/ \E t \in Slots, result \in ExecResults : ExecSettled(t, result)
    \/ \E t \in Slots : UnlinkDone(t)

SpecTracer == InitTracer /\ [][NextTracer]_vars

---------------------------------------------------------------------------
(* Lang-A source text.  A text is the sequence of its statements and       *)
(* comments, each with the line it starts on; a string is the sequence of  *)
(* its words.  Statements that hold statements keep them in `body`.        *)

StringLiteral(words) == [type |-> "StringLiteral", words |-> words]
NumericLiteral(n) == [type |-> "NumericLiteral", value |-> n]
Identifier(name) == [type |-> "Identifier", name |-> name]
\* sandbox.name
SandboxMember(name) == [type |-> "MemberExpression", name |-> name]
\* new Error("message")
NewError(words) == [type |-> "NewExpression", message |-> words]
NullLiteral == [type |-> "NullLiteral"]

\* // words
Comment(line, words) == [type |-> "Comment", line |-> line, words |-> words]
\* kind name = init;
VariableDeclaration(line, kind, name, init) ==
    [type |-> "VariableDeclaration", line |-> line, kind |-> kind,
     name |-> name, init |-> init]
\* target = value;
Assignment(line, target, value) ==
    [type |-> "ExpressionStatement", line |-> line, expression |-> "assign",
     target |-> target, value |-> value]
\* console.log(arg);
ConsoleLog(line, arg) ==
    [type |-> "ExpressionStatement", line |-> line, expression |-> "call",
     callee |-> "console.log", arg |-> arg]
\* __trace(n);
TraceCall(line, n) ==
    [type |-> "ExpressionStatement", line |-> line, expression |-> "call",
     callee |-> "__trace", arg |-> NumericLiteral(n)]
\* throw value;
ThrowStatement(line, value) ==
    [type |-> "ThrowStatement", line |-> line, value |-> value]
\* await Promise.resolve();  or  await new Promise(() => {});
AwaitStatement(line, promise) ==
    [type |-> "ExpressionStatement", line |-> line, expression |-> "await",
     promise |-> promise]
\* while (true) { body }
WhileStatement(line, body) ==
    [type |-> "WhileStatement", line |-> line, body |-> body]
\* { body }
BlockStatement(line, body) ==
    [type |-> "BlockStatement", line |-> line, body |-> body]
\* with (sandbox) { body }
WithStatement(line, body) ==
    [type |-> "WithStatement", line |-> line, body |-> body]
\* (async () => { body })()
AsyncCall(line, body) ==
    [type |-> "ExpressionStatement", line |-> line, expression |-> "asyncCall",
     body |-> body]
\* text the parser rejects
BadToken(line) == [type |-> "BadToken", line |-> line]

\* the source of the test 'handles let/const in strings and comments'
SourceS1 ==
    <<Comment(1, <<"comment", "with", "let", "and", "const">>),
      VariableDeclaration(2, "const", "msg",
                          StringLiteral(<<"let", "inside", "string">>)),
      Comment(2, <<"inline", "const">>),
      VariableDeclaration(3, "let", "x", NumericLiteral(1)),
      ConsoleLog(4, Identifier("msg"))>>

\* throw new Error("boom");
SourceS2 == <<ThrowStatement(1, NewError(<<"boom">>))>>

\* the Lang-A programs that are submitted
Programs ==
    {SourceS1, SourceS2,
     <<ConsoleLog(1, StringLiteral(<<"a">>)),
       Assignment(2, Identifier("x"), NumericLiteral(1)),
       ThrowStatement(3, NewError(<<"boom">>))>>,
     <<ConsoleLog(1, StringLiteral(<<"a">>)),
       ThrowStatement(2, StringLiteral(<<"boom">>))>>,
     <<ThrowStatement(1, NullLiteral)>>,
     <<ConsoleLog(1, Identifier("z"))>>,
     <<ConsoleLog(1, Identifier("z")),
       Assignment(2, Identifier("x"), NumericLiteral(1))>>,
     <<ConsoleLog(1, StringLiteral(<<"a">>)), BadToken(2)>>,
     <<ConsoleLog(1, StringLiteral(<<"a">>)),
       WhileStatement(2, <<ConsoleLog(3, StringLiteral(<<"b">>))>>)>>,
     <<ConsoleLog(1, StringLiteral(<<"a">>)),
       AwaitStatement(2, "never"),
       ConsoleLog(3, StringLiteral(<<"b">>))>>,
     <<AwaitStatement(1, "resolved"),
       ConsoleLog(2, StringLiteral(<<"b">>))>>,
     <<AwaitStatement(1, "resolved"),
       ThrowStatement(2, NewError(<<"late">>))>>,
     <<AwaitStatement(1, "resolved"),
       WhileStatement(2, <<>>)>>,
     <<TraceCall(1, 7),
       BlockStatement(2, <<VariableDeclaration(3, "let", "y", NumericLiteral(2))>>)>>,
     <<Assignment(1, SandboxMember("x"), NumericLiteral(1)),
       Assignment(2, Identifier("x"), NumericLiteral(2)),
       ConsoleLog(3, Identifier("x"))>>}

\* mutant of Parse: a text is run up to the statement the parser rejects
ParseUpToError(code) ==
    [ok |-> TRUE,
     ast |-> [type |-> "Program",
              body |-> [i \in 1..Len(code) |->
                           IF code[i].type = "BadToken"
                           THEN ThrowStatement(code[i].line,
                                               NewError(<<"Unexpected", "token">>))
                           ELSE code[i]]]]

\* parse(code, {sourceType: 'script', ...}): the Program node, or the throw
Parse(code) ==
    IF \E i \in 1..Len(code) : code[i].type = "BadToken"
    THEN [ok |-> FALSE, message |-> <<"Unexpected", "token">>]
    ELSE [ok |-> TRUE, ast |-> [type |-> "Program", body |-> code]]

\* path.isExpressionStatement() && t.isCallExpression(path.node.expression)
\* && t.isIdentifier(path.node.expression.callee, { name: '__trace' })
IsTraceCall(node) ==
    /\ node.type = "ExpressionStatement"
    /\ node.expression = "call"
    /\ node.callee = "__trace"

\* path.isStatement() && !path.isBlockStatement()
IsTracedStatement(node) ==
    node.type \notin {"Comment", "BlockStatement"}

\* mutant of TraceNode: the probe carries the 0-based line
TraceNodeZeroBased(line) == TraceCall(0, line - 1)

\* t.expressionStatement(t.callExpression(t.identifier('__trace'),
\* [t.numericLiteral(line)])): a node without a location (line 0)
TraceNode(line) == TraceCall(0, line)

\* the words of a text with every let and const replaced by var
ReplaceWords(words) ==
    [i \in 1..Len(words) |->
        IF words[i] \in {"let", "const"} THEN "var" ELSE words[i]]

\* mutant of EnterDeclaration: the words let and const are replaced wherever
\* the text of the statement holds them
EnterDeclarationTextually(node) ==
    IF node.type = "VariableDeclaration"
    THEN [node EXCEPT
            !.kind = IF @ \in {"let", "const"} THEN "var" ELSE @,
            !.init = IF @.type = "StringLiteral"
                     THEN StringLiteral(ReplaceWords(@.words)) ELSE @]
    ELSE node

\* if (path.isVariableDeclaration()) { if (kind is 'let' or 'const') kind = 'var' }
EnterDeclaration(node) ==
    IF node.type = "VariableDeclaration" /\ node.kind \in {"let", "const"}
    THEN [node EXCEPT !.kind = "var"]
    ELSE node

RECURSIVE Traverse(_)
\* enter(path) for one node of a statement list, then the traversal of the
\* node's children: the statements that stand in its place afterwards
Enter(node) ==
    LET visited == IF "body" \in DOMAIN node
                   THEN [node EXCEPT !.body = Traverse(@)]
                   ELSE EnterDeclaration(node)
    IN  IF IsTracedStatement(node) /\ ~IsTraceCall(node)
        THEN <<TraceNode(node.line), visited>>
        ELSE <<visited>>

\* traverse(ast, { enter }) over a statement list; the inserted __trace
\* statements are visited too and left as they are
Traverse(body) ==
    IF body = <<>> THEN <<>>
    ELSE Enter(Head(body)) \o Traverse(Tail(body))

RECURSIVE Generate(_, _)
\* generate(ast, { comments: true, retainLines: true }) and the "\n" after the
\* head of the wrapper: every statement is printed `shift` lines below its
\* original line, and a statement without one on the line of what follows it
Generate(body, shift) ==
    IF body = <<>> THEN <<>>
    ELSE LET node == Head(body)
             rest == Generate(Tail(body), shift)
             line == IF node.line # 0 THEN node.line + shift
                     ELSE IF rest # <<>> THEN rest[1].line ELSE 1 + shift
             printed == IF "body" \in DOMAIN node
                        THEN [node EXCEPT !.line = line,
                                          !.body = Generate(@, shift)]
                        ELSE [node EXCEPT !.line = line]
         IN  <<printed>> \o rest

\* `(async () => { with (sandbox) {\n${instrumented}\n}})()`
Wrapper(instrumented) ==
    <<AsyncCall(1, <<WithStatement(1, instrumented)>>)>>

\* instrumentJavaScript(code): the instrumented text, or the parser's throw
InstrumentJavaScript(code) ==
    LET parsed == Parse(code)
    IN  IF ~parsed.ok THEN parsed
        ELSE [ok |-> TRUE,
              text |-> Wrapper(Generate(Traverse(parsed.ast.body), 1))]

---------------------------------------------------------------------------
(* The Lang-A evaluator: vm.Script.runInContext on a context that holds    *)
(* sandbox, console.log and __trace, and the microtasks that follow it.    *)
(* The context has no timers, so a promise of the program is settled by a  *)
(* microtask or never.                                                     *)

\* iterations a `while (true)` completes before the timeout of 1000 ms
MaxIterations == 2

\* an object without keys
EmptyObject == [name \in {} |-> Null]

\* obj with obj[name] = value
WithKey(obj, name, value) ==
    [n \in DOMAIN obj \cup {name} |-> IF n = name THEN value ELSE obj[n]]

\* the state of a run: the events array and the sandbox object of the
\* handler, the variables of the wrapper function and of the global object,
\* and how far the run got
NewRun ==
    [events |-> <<>>, sandbox |-> EmptyObject, scope |-> EmptyObject,
     status |-> "running", async |-> FALSE, error |-> NullLiteral]

\* String(a) of a logged value: the words of a string, the digits of a number
StringOf(value) == value

\* __trace: (line) => { events.push({ event: 'step', line, locals: { ...sandbox } }) }
TraceHook(run, line) ==
    [run EXCEPT !.events = Append(@, [event |-> "step", line |-> line,
                                      locals |-> run.sandbox])]

\* console.log: (...args) => { events.push({ event: 'log', value: ... }) }
ConsoleLogHook(run, value) ==
    [run EXCEPT !.events = Append(@, [event |-> "log", value |-> StringOf(value)])]

\* the run ends with the value of the expression err thrown
Thrown(run, err) == [run EXCEPT !.status = "threw", !.error = err]

\* an identifier inside with (sandbox) { }: a key of sandbox, else a variable
Resolvable(run, name) == name \in DOMAIN run.sandbox \cup DOMAIN run.scope
Resolve(run, name) ==
    IF name \in DOMAIN run.sandbox THEN run.sandbox[name] ELSE run.scope[name]

\* the value of a literal
ValueOf(expr) ==
    CASE expr.type = "StringLiteral" -> expr.words
      [] expr.type = "NumericLiteral" -> expr.value
      [] expr.type = "NewExpression" -> expr
      [] expr.type = "NullLiteral" -> Null

\* name = value inside with (sandbox) { }: sandbox gets the value only when
\* it has the key already; otherwise the variable of the function (a hoisted
\* var) or of the global object does
AssignIdentifier(run, name, value) ==
    IF name \in DOMAIN run.sandbox
    THEN [run EXCEPT !.sandbox = WithKey(@, name, value)]
    ELSE [run EXCEPT !.scope = WithKey(@, name, value)]

\* one statement that holds no statements
RunSimple(run, node) ==
    CASE node.type = "Comment" -> run
      [] node.type = "VariableDeclaration" ->
            AssignIdentifier(run, node.name, ValueOf(node.init))
      [] node.type = "ThrowStatement" -> Thrown(run, node.value)
      [] node.type = "ExpressionStatement" /\ node.expression = "assign" ->
            IF node.target.type = "MemberExpression"
            THEN [run EXCEPT !.sandbox = WithKey(@, node.target.name, ValueOf(node.value))]
            ELSE AssignIdentifier(run, node.target.name, ValueOf(node.value))
      [] node.type = "ExpressionStatement" /\ node.expression = "await" ->
            IF node.promise = "never"
            THEN [run EXCEPT !.status = "suspended"]
            ELSE [run EXCEPT !.async = TRUE]
      [] node.type = "ExpressionStatement" /\ node.expression = "call" ->
            IF node.callee = "__trace"
            THEN TraceHook(run, node.arg.value)
            ELSE IF node.arg.type # "Identifier"
            THEN ConsoleLogHook(run, ValueOf(node.arg))
            ELSE IF Resolvable(run, node.arg.name)
            THEN ConsoleLogHook(run, Resolve(run, node.arg.name))
            ELSE Thrown(run, NewError(<<node.arg.name, "is", "not", "defined">>))

RECURSIVE RunBody(_, _, _, _)
RECURSIVE RunLoop(_, _, _, _, _)

\* the statements of body, one after the other, inside `depth` async
\* functions; k is the number of iterations a loop completes before the
\* timeout
RunBody(body, run, depth, k) ==
    IF body = <<>> \/ run.status # "running" THEN run
    ELSE LET node == Head(body)
             after ==
                 IF "body" \notin DOMAIN node THEN RunSimple(run, node)
                 ELSE IF node.type = "WhileStatement"
                 THEN RunLoop(node.body, run, depth, k, k)
                 ELSE IF node.type = "ExpressionStatement"
                 THEN LET called == RunBody(node.body, run, depth + 1, k)
                      IN  \* the promise of an inner async function is dropped:
                          \* the outer function goes on whether the inner one
                          \* threw or stays suspended
                          IF depth > 0 /\ called.status \in {"threw", "suspended"}
                          THEN [called EXCEPT !.status = "running",
                                              !.error = NullLiteral]
                          ELSE called
                 ELSE RunBody(node.body, run, depth, k)
         IN  RunBody(Tail(body), after, depth, k)

\* while (true) { body }: under runInContext the timeout ends it after some
\* iterations; in a microtask nothing ends it
RunLoop(body, run, depth, k, left) ==
    IF run.status # "running" THEN run
    ELSE IF run.async THEN [run EXCEPT !.status = "spinning"]
    ELSE IF left = 0
    THEN [run EXCEPT !.status = "timeout",
                     !.error = NewError(<<"Script", "execution", "timed", "out">>)]
    ELSE RunLoop(body, RunBody(body, run, depth, k), depth, k, left - 1)

\* script.runInContext(context, { timeout: 1000 }) and the microtasks of the
\* program that follow it
RunInContext(text, k) == RunBody(text, NewRun, 0, k)

---------------------------------------------------------------------------
(* The javascript branch of executeCode.  runInContext and every microtask *)
(* of the program run before the event loop takes the next request, so the *)
(* handler is one step: it answers, or it is left waiting for a promise    *)
(* nothing settles, or it never gives the event loop back.                 *)

\* { event: 'error', message: err.message } as res.json sends it: message
\* is undefined, and left out of the JSON, unless the thrown value is an Error
ErrorEvent(err) ==
    IF err.type = "NewExpression"
    THEN [event |-> "error", message |-> err.message]
    ELSE [event |-> "error"]

\* catch (err) { events.push({ event: 'error', message: err.message });
\* return res.status(200).json({ events, error: true }); }
\* reading err.message of null throws in the catch block: the handler's
\* promise rejects and it sends nothing
Caught(events, err) ==
    IF err.type = "NullLiteral"
    THEN [pc |-> "rejected", res |-> [status |-> 0]]
    ELSE [pc |-> "done",
          res |-> [status |-> 200,
                   events |-> Append(events, ErrorEvent(err)),
                   error |-> TRUE]]

\* the try and catch blocks of the javascript branch: where the handler is
\* left and what it has answered
ExecuteJavaScript(code, k) ==
    LET instrumented == InstrumentJavaScript(code)
    IN  IF ~instrumented.ok
        THEN Caught(<<>>, NewError(instrumented.message))
        ELSE LET run == RunInContext(instrumented.text, k)
             IN  CASE run.status = "running" ->
                        [pc |-> "done",
                         res |-> [status |-> 200, events |-> run.events,
                                  error |-> FALSE]]
                   [] run.status \in {"threw", "timeout"} ->
                        Caught(run.events, run.error)
                   [] run.status = "suspended" ->
                        [pc |-> "await", res |-> [status |-> 0]]
                   [] run.status = "spinning" ->
                        [pc |-> "spinning", res |-> [status |-> 0]]

\* the handler's try and catch for each program and each timing of the timeout
JavaScriptBranch ==
    [code \in Programs, k \in 1..MaxIterations |-> ExecuteJavaScript(code, k)]

\* no handler is inside a loop that never ends
EventLoopFree == \A t \in DOMAIN tasks : tasks[t].pc # "spinning"

\* mutant of ScriptRequest: the code is run without the test for its absence
ScriptRequestRunsEmptyCode(t, code, k) ==
    /\ EventLoopFree
    /\ t \notin DOMAIN tasks
    /\ LET task == NewTask("executeCode", "javascript", code, <<>>)
           after == ExecuteJavaScript(code, k)
       IN  tasks' = WithTask(t, [task EXCEPT !.pc = after.pc, !.res = after.res])
    /\ UNCHANGED <<debugSessions, req, res, files, serial, client>>

\* a /execute request with language 'javascript'
ScriptRequest(t, code, k) ==
    /\ EventLoopFree
    /\ t \notin DOMAIN tasks
    /\ LET task == NewTask("executeCode", "javascript", code, <<>>)
       IN  tasks' = WithTask(t,
                IF code = <<>>
                THEN [task EXCEPT !.pc = "done",
                        !.res = ErrorHandler(400, "Language and code are required.")]
                ELSE [task EXCEPT !.pc = JavaScriptBranch[code, k].pc,
                                  !.res = JavaScriptBranch[code, k].res])
    /\ UNCHANGED <<debugSessions, req, res, files, serial, client>>

\* the response of slot t has been sent: the request is over and another
\* one may arrive in its place
ResponseSent(t) ==
    /\ EventLoopFree
    /\ t \in DOMAIN tasks
    /\ tasks[t].res.status # 0
    /\ tasks' = [x \in DOMAIN tasks \ {t} |-> tasks[x]]
    /\ UNCHANGED <<debugSessions, req, res, files, serial, client>>

NextScript ==
    \/ \E t \in Slots, code \in Programs \cup {<<>>}, k \in 1..MaxIterations :
           ScriptRequest(t, code, k)
    \/ \E t \in Slots : ResponseSent(t)

SpecScript == InitTracer /\ [][NextScript]_vars

\* the event loop runs a handler that is ready
FairSpecScript == SpecScript /\ WF_vars(NextScript)

\* /execute and /debug/start with both languages
NextExecute ==
    \/ EventLoopFree /\ NextTracer
    \/ \E t \in Slots, code \in Programs \cup {<<>>}, k \in 1..MaxIterations :
           ScriptRequest(t, code, k)

SpecExecute == InitTracer /\ [][NextExecute]_vars

---------------------------------------------------------------------------
(* Commands that arrive concurrently for one session.  The event loop      *)
(* calls debuggerCommand for the requests in the order they arrived; a     *)
(* call reads the session (Begin) and writes it and answers (Finish), and  *)
(* gives up control nowhere in between, as the handler has no await.       *)

SerialSessionId == "u1"

\* the traces of the session the commands arrive for
SerialTraces == ScenarioTraces \cup {<<>>}

\* the commands that arrive, with their line argument
SerialCommands ==
    {[command |-> c, line |-> NoLine] : c \in {"step", "continue", "next", "out", "restart"}}
        \cup {[command |-> "setBreakpoint", line |-> l] : l \in {Num(1), Num(5)}}

\* a session some earlier requests have left in the store
InitSerial ==
    /\ \E events \in SerialTraces,
          breakpoints \in BreakpointArrays \cup ScenarioBreakpoints :
          \E pointer \in -1..(Len(events) - 1) :
              /\ debugSessions =
                     [id \in {SerialSessionId} |->
                         [events |-> events, pointer |-> pointer,
                          breakpoints |-> NewSet(breakpoints)]]
              /\ serial = debugSessions[SerialSessionId]
    /\ req = [handler |-> "none"]
    /\ res = [status |-> 0]
    /\ tasks = NoTasks
    /\ files = NoFiles
    /\ client = Null

\* the calls that have begun and not finished
Running == {t \in DOMAIN tasks : tasks[t].pc = "running"}

\* the requests no call has been made for yet
Waiting == {t \in DOMAIN tasks : tasks[t].pc = "arrived"}

\* mutant of HandlerMayStart: a call may begin while another is suspended
HandlerMayStartAnytime(running) == TRUE

\* the event loop calls a handler only when no other call is on the stack,
\* and debuggerCommand has no await at which a call could leave the stack
HandlerMayStart(running) == running = {}

\* a /debug/command request for the session arrives; `serial` is moved on
\* as the command moves the session when the commands run one by one
Arrive(t, c) ==
    /\ t \notin DOMAIN tasks
    /\ LET one == Dispatch(serial, c.command, c.line)
       IN  /\ tasks' = WithTask(t, [pc |-> "arrived",
                                    seq |-> Cardinality(DOMAIN tasks) + 1,
                                    command |-> c.command, line |-> c.line,
                                    ptr |-> -1, concurrent |-> FALSE,
                                    res |-> [status |-> 0],
                                    expected |-> one.res])
           /\ serial' = one.session
    /\ UNCHANGED <<debugSessions, req, res, files, client>>

\* const session = debugSessions[sessionId]; let ptr = session.pointer
Begin(t) ==
    /\ t \in Waiting
    /\ \A u \in Waiting : tasks[t].seq <= tasks[u].seq
    /\ HandlerMayStart(Running)
    /\ tasks' = [tasks EXCEPT
                   ![t].pc = "running",
                   ![t].ptr = debugSessions[SerialSessionId].pointer,
                   ![t].concurrent = (Waiting \cup Running # {t})]
    /\ UNCHANGED <<debugSessions, req, res, files, serial, client>>

\* the rest of the call: the command is run from the ptr that was read, on
\* the breakpoints and events of the session object
Finish(t) ==
    /\ t \in Running
    /\ LET session == debugSessions[SerialSessionId]
           result == Dispatch([session EXCEPT !.pointer = tasks[t].ptr],
                              tasks[t].command, tasks[t].line)
       IN  /\ debugSessions' =
                  [debugSessions EXCEPT ![SerialSessionId] =
                      IF tasks[t].command \in {"step", "continue", "next", "out"}
                      THEN result.session
                      ELSE [result.session EXCEPT !.pointer = session.pointer]]
           /\ tasks' = [tasks EXCEPT ![t].pc = "done", ![t].res = result.res]
    /\ UNCHANGED <<req, res, files, serial, client>>

NextSerial ==
    \/ \E t \in Slots, c \in SerialCommands : Arrive(t, c)
    \/ \E t \in Slots : Begin(t)
    \/ \E t \in Slots : Finish(t)

SpecSerial == InitSerial /\ [][NextSerial]_vars

---------------------------------------------------------------------------
(* Vocabulary of the properties *)

NavCommands == {"step", "continue", "next", "out"}

LastIndex(events) == Len(events) - 1

\* the request handled last was command c on the existing session id
Handled(id, c) ==
    /\ req.handler = "debuggerCommand"
    /\ req.sessionId = id
    /\ req.command = c
    /\ id \in DOMAIN debugSessions

\* this step handles command c on the existing session id
Handles(id, c) ==
    /\ id \in DOMAIN debugSessions
    /\ req'.handler = "debuggerCommand"
    /\ req'.sessionId = id
    /\ req'.command = c

\* indices past p whose line is a breakpoint
BreakpointHits(session) ==
    {q \in (session.pointer + 1)..LastIndex(session.events) :
        EventAt(session.events, q).line \in Members(session.breakpoints)}

\* indices past p at most / less than as deep as the event at p
SameOrShallower(session) ==
    {q \in (session.pointer + 1)..LastIndex(session.events) :
        CallStackLength(session.events, q)
            <= CallStackLength(session.events, session.pointer)}

Shallower(session) ==
    {q \in (session.pointer + 1)..LastIndex(session.events) :
        CallStackLength(session.events, q)
            < CallStackLength(session.events, session.pointer)}

---------------------------------------------------------------------------
(* C1 as stated: on a session with a non-empty events array, after any     *)
(* debuggerCommand that returns a success response (step, continue, next,  *)
(* out or setBreakpoint), 0 <= pointer <= len(events)-1.                   *)
C1_PointerInRangeAfterAnySuccess ==
    \A id \in DOMAIN debugSessions :
        ( /\ req.handler = "debuggerCommand"
          /\ req.sessionId = id
          /\ res.status = 200
          /\ Len(debugSessions[id].events) > 0 )
        => /\ 0 <= debugSessions[id].pointer
           /\ debugSessions[id].pointer <= LastIndex(debugSessions[id].events)

(* C1 amended: on a session with a non-empty events array, after a         *)
(* successful step, continue, next or out, 0 <= pointer <= len(events)-1;  *)
(* after a successful setBreakpoint, -1 <= pointer <= len(events)-1.       *)
C1_PointerInRangeAfterNavigation ==
    \A id \in DOMAIN debugSessions :
        ( /\ req.handler = "debuggerCommand"
          /\ req.sessionId = id
          /\ res.status = 200
          /\ Len(debugSessions[id].events) > 0 )
        => /\ debugSessions[id].pointer <= LastIndex(debugSessions[id].events)
           /\ req.command \in NavCommands => 0 <= debugSessions[id].pointer
           /\ req.command = "setBreakpoint" => -1 <= debugSessions[id].pointer

\* a step was answered done=true at the end of a three-event trace
C1_Witness ==
    \E id \in DOMAIN debugSessions :
        /\ Handled(id, "step")
        /\ res.status = 200 /\ res.done
        /\ Len(debugSessions[id].events) = 3
        /\ debugSessions[id].pointer = 2

(* C2: across any sequence of debuggerCommand calls on one session,        *)
(* rejected ones included, the session pointer never decreases.            *)
C2_PointerNeverDecreases ==
    [][\A id \in DOMAIN debugSessions :
          /\ id \in DOMAIN debugSessions'
          /\ debugSessions'[id].pointer >= debugSessions[id].pointer]_vars

\* an unknown command was rejected on a session that had advanced
C2_Witness ==
    \E id \in DOMAIN debugSessions :
        /\ Handled(id, "restart")
        /\ res.status = 400
        /\ debugSessions[id].pointer >= 1

(* C3: while the pointer is below the last index, a step command increases *)
(* the pointer by exactly 1 and returns done=false with the event at the   *)
(* new pointer (so k steps on a fresh session with at least k events       *)
(* return events[0], ..., events[k-1] in order).                           *)
C3_StepAdvancesByOne ==
    [][\A id \in DOMAIN debugSessions :
          ( /\ Handles(id, "step")
            /\ debugSessions[id].pointer < LastIndex(debugSessions[id].events) )
          => /\ debugSessions'[id].pointer = debugSessions[id].pointer + 1
             /\ res'.status = 200
             /\ res'.done = FALSE
             /\ res'.event = debugSessions[id].events[debugSessions'[id].pointer + 1]
      ]_vars

\* the third step of a session returned the third event, which is the last
C3_Witness ==
    \E id \in DOMAIN debugSessions :
        /\ Handled(id, "step")
        /\ Len(debugSessions[id].events) = 3
        /\ debugSessions[id].pointer = 2
        /\ res.done = FALSE
        /\ res.event = debugSessions[id].events[3]

(* C4: a step command issued when the pointer is already at the last index *)
(* of a non-empty events array leaves the pointer at the last index and    *)
(* returns done=true together with the last event.                         *)
C4_StepAtEndReturnsLastEvent ==
    [][\A id \in DOMAIN debugSessions :
          ( /\ Handles(id, "step")
            /\ Len(debugSessions[id].events) > 0
            /\ debugSessions[id].pointer = LastIndex(debugSessions[id].events) )
          => /\ debugSessions'[id].pointer = LastIndex(debugSessions[id].events)
             /\ res'.done = TRUE
             /\ res'.event = debugSessions[id].events[Len(debugSessions[id].events)]
      ]_vars

(* C5: a continue command from pointer p moves the pointer to the smallest *)
(* index q > p whose line is in the breakpoint set and returns events[q];  *)
(* if there is none it moves the pointer to the last index and returns the *)
(* last event with done=true (on an empty trace there is no last event:    *)
(* the pointer stays -1 and the response carries no event).                *)
C5_ContinueStopsAtNextBreakpoint ==
    [][\A id \in DOMAIN debugSessions :
          Handles(id, "continue") =>
            LET session == debugSessions[id]
                hits == BreakpointHits(session)
                last == LastIndex(session.events)
            IN  /\ res'.status = 200
                /\ IF hits # {}
                   THEN /\ debugSessions'[id].pointer = MinOf(hits)
                        /\ res'.event = session.events[MinOf(hits) + 1]
                   ELSE /\ debugSessions'[id].pointer = last
                        /\ res'.event = EventAt(session.events, last)
                        /\ res'.done = TRUE
      ]_vars

\* continue skipped two events and stopped on a breakpoint before the end
C5_Witness ==
    \E id \in DOMAIN debugSessions :
        LET session == debugSessions[id]
        IN  /\ Handled(id, "continue")
            /\ session.events = TraceS4
            /\ session.breakpoints = <<5>>
            /\ session.pointer = 4
            /\ res.event = TraceS4[5]

(* C6: whenever a continue command stops on an event whose line is in the  *)
(* breakpoint set (a breakpoint was met during the scan), its response has *)
(* done=false.                                                             *)
C6_ContinueAtBreakpointNotDone ==
    [][\A id \in DOMAIN debugSessions :
          ( /\ Handles(id, "continue")
            /\ BreakpointHits(debugSessions[id]) # {} )
          => res'.done = FALSE
      ]_vars

(* C7: on a session whose breakpoint set is empty, a continue command from *)
(* any reachable pointer position sets the pointer to the last index and   *)
(* returns the last event with done=true.                                  *)
C7_ContinueWithoutBreakpointsRunsToEnd ==
    [][\A id \in DOMAIN debugSessions :
          ( /\ Handles(id, "continue")
            /\ Members(debugSessions[id].breakpoints) = {} )
          => LET events == debugSessions[id].events
             IN  /\ debugSessions'[id].pointer = LastIndex(events)
                 /\ res'.status = 200
                 /\ res'.done = TRUE
                 /\ res'.event = EventAt(events, LastIndex(events))
      ]_vars

\* continue ran a session without breakpoints to the end of a three-event trace
C7_Witness ==
    \E id \in DOMAIN debugSessions :
        LET session == debugSessions[id]
        IN  /\ Handled(id, "continue")
            /\ session.breakpoints = <<>>
            /\ Len(session.events) = 3
            /\ session.pointer = 2
            /\ res.done
            /\ res.event = session.events[3]

(* C8: a next command from pointer p, with d the callStack length of       *)
(* events[p] (0 when missing), moves the pointer to the smallest index     *)
(* q > p whose callStack length is <= d; if there is none it moves the     *)
(* pointer to the last index and returns done=true.                        *)
C8_NextStopsAtSameOrShallowerDepth ==
    [][\A id \in DOMAIN debugSessions :
          Handles(id, "next") =>
            LET session == debugSessions[id]
                cands == SameOrShallower(session)
            IN  /\ res'.status = 200
                /\ IF cands # {}
                   THEN /\ debugSessions'[id].pointer = MinOf(cands)
                        /\ res'.event = session.events[MinOf(cands) + 1]
                   ELSE /\ debugSessions'[id].pointer = LastIndex(session.events)
                        /\ res'.done = TRUE
      ]_vars

\* next stopped on the event with an empty callStack that follows a deeper one
C8_Witness ==
    \E id \in DOMAIN debugSessions :
        LET session == debugSessions[id]
        IN  /\ Handled(id, "next")
            /\ session.events = TraceDepths
            /\ session.pointer = 1
            /\ res.event = TraceDepths[2]
            /\ res.done = FALSE

(* C9 as stated: on the trace with callStack depths [1,1,2,2,1] and the    *)
(* pointer at 0, the command next lands on index 4.                        *)
C9_NextFromZeroLandsOnFour ==
    [][\A id \in DOMAIN debugSessions :
          ( /\ Handles(id, "next")
            /\ debugSessions[id].events = TraceS5
            /\ debugSessions[id].pointer = 0 )
          => debugSessions'[id].pointer = 4
      ]_vars

(* C9 amended: on the trace with callStack depths [1,1,2,2,1] and the      *)
(* pointer at 0, the command next lands on index 1 (the next entry of      *)
(* depth <= 1 past index 0) and returns that event with done=false.        *)
C9_NextFromZeroLandsOnOne ==
    [][\A id \in DOMAIN debugSessions :
          ( /\ Handles(id, "next")
            /\ debugSessions[id].events = TraceS5
            /\ debugSessions[id].pointer = 0 )
          => /\ debugSessions'[id].pointer = 1
             /\ res'.event = TraceS5[2]
             /\ res'.done = FALSE
      ]_vars

\* next was answered with the second event of that trace
C9_Witness ==
    \E id \in DOMAIN debugSessions :
        /\ Handled(id, "next")
        /\ debugSessions[id].events = TraceS5
        /\ debugSessions[id].pointer = 1
        /\ res.event = TraceS5[2]

(* C10: an out command from pointer p, with d the callStack length of      *)
(* events[p] (0 when missing), moves the pointer to the smallest index     *)
(* q > p whose callStack length is strictly less than d; if there is none  *)
(* it moves the pointer to the last index and returns done=true.           *)
C10_OutStopsAtShallowerDepth ==
    [][\A id \in DOMAIN debugSessions :
          Handles(id, "out") =>
            LET session == debugSessions[id]
                cands == Shallower(session)
            IN  /\ res'.status = 200
                /\ IF cands # {}
                   THEN /\ debugSessions'[id].pointer = MinOf(cands)
                        /\ res'.event = session.events[MinOf(cands) + 1]
                   ELSE /\ debugSessions'[id].pointer = LastIndex(session.events)
                        /\ res'.done = TRUE
      ]_vars

\* out left the two-deep first frame and stopped on the shallower second event
C10_Witness ==
    \E id \in DOMAIN debugSessions :
        LET session == debugSessions[id]
        IN  /\ Handled(id, "out")
            /\ session.events = TraceDepths
            /\ session.pointer = 1
            /\ res.event = TraceDepths[2]
            /\ res.done = FALSE

(* C11 as stated: no continue, next or out command re-yields the current   *)
(* event: the index of the event it returns (on a non-empty trace) is      *)
(* strictly greater than the pointer before the command, also when the     *)
(* pointer is at the last index.                                           *)
C11_NeverReyieldsCurrentEvent ==
    [][\A id \in DOMAIN debugSessions :
          \A c \in {"continue", "next", "out"} :
              (Handles(id, c) /\ Len(debugSessions[id].events) > 0) =>
                  /\ res'.event = EventAt(debugSessions[id].events,
                                          debugSessions'[id].pointer)
                  /\ debugSessions'[id].pointer > debugSessions[id].pointer
      ]_vars

(* C11 amended: while the pointer is below the last index, the event a     *)
(* continue, next or out command returns has an index strictly greater     *)
(* than the pointer before the command; when the pointer is already at the *)
(* last index the command returns that last event again, with done=true.   *)
C11_ReyieldsOnlyAtLastIndex ==
    [][\A id \in DOMAIN debugSessions :
          \A c \in {"continue", "next", "out"} :
              Handles(id, c) =>
                  LET session == debugSessions[id]
                      last == LastIndex(session.events)
                  IN  /\ res'.event = EventAt(session.events, debugSessions'[id].pointer)
                      /\ session.pointer < last
                            => debugSessions'[id].pointer > session.pointer
                      /\ (session.pointer = last /\ last >= 0)
                            => /\ debugSessions'[id].pointer = last
                               /\ res'.done = TRUE
      ]_vars

\* continue left the breakpoint on line 5 and ran to the sixth, last event
C11_Witness ==
    \E id \in DOMAIN debugSessions :
        LET session == debugSessions[id]
        IN  /\ Handled(id, "continue")
            /\ session.events = TraceS4
            /\ session.breakpoints = <<5>>
            /\ session.pointer = 5
            /\ res.event = TraceS4[6]
            /\ res.done

(* C12: on a fresh session (pointer = -1) continue, next and out begin     *)
(* their scan at index 0 with a reference depth of 0: continue returns     *)
(* events[0] when its line is a breakpoint, next returns events[0] when    *)
(* its callStack is empty or missing, and otherwise the scan goes on from  *)
(* index 1 (out, with depth 0, finds nothing shallower and runs to the     *)
(* last index).                                                            *)
C12_FreshSessionScansFromIndexZero ==
    [][\A id \in DOMAIN debugSessions :
          LET session == debugSessions[id]
              events == session.events
              last == LastIndex(events)
              from1(S) == IF S \ {0} # {} THEN MinOf(S \ {0}) ELSE last
          IN  (session.pointer = -1 /\ Len(events) > 0) =>
                /\ Handles(id, "continue") =>
                     /\ debugSessions'[id].pointer =
                            IF events[1].line \in Members(session.breakpoints)
                            THEN 0
                            ELSE from1({q \in 0..last :
                                     events[q + 1].line \in Members(session.breakpoints)})
                     /\ res'.event = events[debugSessions'[id].pointer + 1]
                /\ Handles(id, "next") =>
                     /\ debugSessions'[id].pointer =
                            IF CallStackLength(events, 0) = 0
                            THEN 0
                            ELSE from1({q \in 0..last : CallStackLength(events, q) <= 0})
                     /\ res'.event = events[debugSessions'[id].pointer + 1]
                /\ Handles(id, "out") =>
                     /\ debugSessions'[id].pointer = last
                     /\ res'.event = events[last + 1]
      ]_vars

\* the first next of a session stopped on a first event without callStack
C12_Witness ==
    \E id \in DOMAIN debugSessions :
        LET session == debugSessions[id]
        IN  /\ Handled(id, "next")
            /\ Len(session.events) >= 2
            /\ session.pointer = 0
            /\ "callStack" \notin DOMAIN session.events[1]
            /\ res.event = session.events[1]
            /\ res.done = FALSE

NoDuplicates(array) ==
    \A i, j \in 1..Len(array) : array[i] = array[j] => i = j

(* C13: setBreakpoint with a numeric line L makes L a member of the        *)
(* breakpoint set and returns the whole set as an array without            *)
(* duplicates; when L is a member already (a repeated call) the set and    *)
(* the returned array are the same as before, so the set is at most one    *)
(* element larger than before the first call.                              *)
C13_SetBreakpointIsIdempotent ==
    [][\A id \in DOMAIN debugSessions :
          ( /\ Handles(id, "setBreakpoint")
            /\ req'.line.type = "number" )
          => LET before == debugSessions[id].breakpoints
                 after == debugSessions'[id].breakpoints
                 L == req'.line.value
             IN  /\ res'.status = 200
                 /\ L \in Members(after)
                 /\ Members(after) = Members(before) \cup {L}
                 /\ res'.breakpoints = after
                 /\ NoDuplicates(res'.breakpoints)
                 /\ Len(after) <= Len(before) + 1
                 /\ L \in Members(before) => after = before
      ]_vars

\* line 2 was set on a session that started with breakpoint 1
C13_Witness ==
    \E id \in DOMAIN debugSessions :
        /\ Handled(id, "setBreakpoint")
        /\ req.line = Num(2)
        /\ debugSessions[id].breakpoints = <<1, 2>>
        /\ res.breakpoints = <<1, 2>>

(* C14: setBreakpoint with a missing or non-numeric line leaves the        *)
(* breakpoint set unchanged and still returns a success response carrying  *)
(* the current set.                                                        *)
C14_NonNumericLineIsIgnored ==
    [][\A id \in DOMAIN debugSessions :
          ( /\ Handles(id, "setBreakpoint")
            /\ req'.line.type # "number" )
          => /\ debugSessions'[id].breakpoints = debugSessions[id].breakpoints
             /\ res'.status = 200
             /\ res'.breakpoints = debugSessions[id].breakpoints
      ]_vars

\* a string line was sent to a session whose set holds only line 2
C14_Witness ==
    \E id \in DOMAIN debugSessions :
        /\ Handled(id, "setBreakpoint")
        /\ req.line = StrLine(1)
        /\ debugSessions[id].breakpoints = <<2>>
        /\ res.status = 200
        /\ res.breakpoints = <<2>>

(* C15: debuggerCommand on an existing session with a command outside      *)
(* {step, continue, next, out, setBreakpoint} yields a 400 error and the   *)
(* session stays in the store with pointer, breakpoints and events         *)
(* unchanged.                                                              *)
C15_UnknownCommandIsRejected ==
    [][\A id \in DOMAIN debugSessions :
          ( /\ req'.handler = "debuggerCommand"
            /\ req'.sessionId = id
            /\ req'.command \notin NavCommands \cup {"setBreakpoint"} )
          => /\ res'.status = 400
             /\ id \in DOMAIN debugSessions'
             /\ debugSessions'[id] = debugSessions[id]
      ]_vars

\* an unknown command was rejected on a session in the middle of its trace
C15_Witness ==
    \E id \in DOMAIN debugSessions :
        /\ Handled(id, "restart")
        /\ res.status = 400
        /\ debugSessions[id].pointer = 1
        /\ Len(debugSessions[id].events) = 3
        /\ debugSessions[id].breakpoints = <<2, 1>>

Responds(t) ==
    /\ t \in DOMAIN tasks'
    /\ tasks'[t].res.status # 0
    /\ (t \in DOMAIN tasks => tasks[t].res.status = 0)

(* C18: a session is added to the store only by a startDebugSession        *)
(* request that responds with a sessionId; a request that fails (language  *)
(* not python, tracer status error, timeout, crash, unparsable stdout)     *)
(* adds none. A new session has pointer -1, the tracer's traces as events  *)
(* and the set of the request's breakpoints as breakpoints.                *)
C18_SessionsComeFromSuccessfulStarts ==
    [][/\ \A id \in DOMAIN debugSessions :
              id \in DOMAIN debugSessions' /\ debugSessions'[id] = debugSessions[id]
       /\ \A id \in DOMAIN debugSessions' \ DOMAIN debugSessions :
              \E t \in Slots :
                  /\ Responds(t)
                  /\ tasks'[t].handler = "startDebugSession"
                  /\ tasks'[t].res = [status |-> 200, sessionId |-> id]
                  /\ tasks'[t].exec.settled = "resolved"
                  /\ debugSessions'[id].pointer = -1
                  /\ debugSessions'[id].events = tasks'[t].exec.stdout.doc.traces
                  /\ Members(debugSessions'[id].breakpoints) =
                         {tasks'[t].breakpoints[i] :
                             i \in 1..Len(tasks'[t].breakpoints)}
                  /\ NoDuplicates(debugSessions'[id].breakpoints)
       /\ \A t \in Slots :
              Responds(t) =>
                  IF "sessionId" \in DOMAIN tasks'[t].res
                  THEN DOMAIN debugSessions' =
                           DOMAIN debugSessions \cup {tasks'[t].res.sessionId}
                  ELSE debugSessions' = debugSessions
      ]_vars

\* one start created a session from breakpoints [1,1]; another, whose
\* tracer reported status error, created none
C18_Witness ==
    \E t1, t2 \in DOMAIN tasks :
        /\ "sessionId" \in DOMAIN tasks[t1].res
        /\ tasks[t1].breakpoints = <<1, 1>>
        /\ DOMAIN debugSessions = {tasks[t1].res.sessionId}
        /\ debugSessions[tasks[t1].res.sessionId].breakpoints = <<1>>
        /\ debugSessions[tasks[t1].res.sessionId].pointer = -1
        /\ Len(debugSessions[tasks[t1].res.sessionId].events) = 1
        /\ tasks[t2].handler = "startDebugSession"
        /\ tasks[t2].pc = "done"
        /\ tasks[t2].exec # Null
        /\ tasks[t2].exec.settled = "resolved"
        /\ tasks[t2].exec.stdout.json
        /\ tasks[t2].exec.stdout.doc.status = "error"

(* C19: every request that writes a temp source file unlinks it on every   *)
(* exit path (success, tracer status error, timeout, crash, unparsable     *)
(* stdout, write failure): once the handler has completed, no temp file    *)
(* created by it remains.                                                  *)
C19_NoTempFileAfterHandler ==
    \A t \in DOMAIN tasks :
        (tasks[t].pc = "done" /\ tasks[t].uniqueId # "")
            => FilePath(tasks[t].uniqueId) \notin DOMAIN files

\* a handler whose tracer timed out and one whose write failed have both
\* completed and TEMP_DIR is empty
C19_Witness ==
    \E t1, t2 \in DOMAIN tasks :
        /\ tasks[t1].pc = "done" /\ tasks[t2].pc = "done"
        /\ tasks[t1].exec # Null
        /\ tasks[t1].exec.settled = "rejected"
        /\ tasks[t1].exec.message = "timeout"
        /\ tasks[t2].uniqueId # ""
        /\ tasks[t2].res = CatchResponse(tasks[t2].handler, "ENOSPC")
        /\ DOMAIN files = {}

(* C20 as stated: the tracer is spawned with [tracer_path, source_path],   *)
(* and a third argument, the JSON-encoded breakpoint list, is passed       *)
(* exactly when the request's breakpoints list is non-empty.               *)
C20_ThirdArgumentIffBreakpoints ==
    \A t \in DOMAIN tasks :
        tasks[t].argv # <<>> =>
            LET argv == tasks[t].argv
            IN  /\ Len(argv) \in {2, 3}
                /\ argv[1].value = TracerPath
                /\ argv[2].value = FilePath(tasks[t].uniqueId)
                /\ Len(argv) = 3 <=> tasks[t].breakpoints # <<>>
                /\ Len(argv) = 3 =>
                       argv[3].value = JsonStringify(tasks[t].breakpoints)

(* C20 amended: python /execute spawns the tracer with exactly             *)
(* [tracer_path, source_path], whatever the request carries; /debug/start  *)
(* always passes a third argument, the JSON-encoded breakpoint list, which *)
(* is "[]" when the request's breakpoints list is empty or absent.         *)
C20_ThirdArgumentIffDebugStart ==
    \A t \in DOMAIN tasks :
        tasks[t].argv # <<>> =>
            LET argv == tasks[t].argv
            IN  /\ argv[1].value = TracerPath
                /\ argv[2].value = FilePath(tasks[t].uniqueId)
                /\ tasks[t].handler = "executeCode" => Len(argv) = 2
                /\ tasks[t].handler = "startDebugSession" =>
                       /\ Len(argv) = 3
                       /\ argv[3].value = JsonStringify(tasks[t].breakpoints)

\* a /debug/start without breakpoints spawned the tracer with "[]", and an
\* /execute that carried breakpoints spawned it with two arguments
C20_Witness ==
    \E t1, t2 \in DOMAIN tasks :
        /\ tasks[t1].handler = "startDebugSession"
        /\ tasks[t1].breakpoints = <<>>
        /\ Len(tasks[t1].argv) = 3
        /\ tasks[t1].argv[3].value = "[]"
        /\ tasks[t2].handler = "executeCode"
        /\ tasks[t2].breakpoints = <<1>>
        /\ Len(tasks[t2].argv) = 2

(* C17: commands on the same session never interleave: each call reads and *)
(* writes the pointer and the breakpoint set atomically, so for commands   *)
(* that arrive concurrently the session and the responses are those of     *)
(* running the commands one after the other in arrival order.              *)
C17_CommandsAreSerialized ==
    /\ Cardinality({t \in DOMAIN tasks : tasks[t].pc = "running"}) <= 1
    /\ \A t \in DOMAIN tasks :
           tasks[t].pc = "done" => tasks[t].res = tasks[t].expected
    /\ (\A t \in DOMAIN tasks : tasks[t].pc = "done")
           => debugSessions[SerialSessionId] = serial

\* two steps that were both waiting were answered with successive events
C17_Witness ==
    \E t1, t2 \in DOMAIN tasks :
        /\ tasks[t1].seq = 1 /\ tasks[t2].seq = 2
        /\ tasks[t1].pc = "done" /\ tasks[t2].pc = "done"
        /\ tasks[t1].concurrent
        /\ tasks[t1].command = "step" /\ tasks[t2].command = "step"
        /\ debugSessions[SerialSessionId].events = TraceS5
        /\ tasks[t1].res.event = TraceS5[3]
        /\ tasks[t2].res.event = TraceS5[4]
        /\ debugSessions[SerialSessionId].pointer = 3

\* the handler of slot t leaves its await of execFileAsync in this step
ExecSettles(t) ==
    /\ t \in DOMAIN tasks
    /\ tasks[t].pc = "exec"
    /\ tasks'[t].pc # "exec"

\* the tracer of slot t has exited with a code other than 0
ExitedNonZero(t) ==
    /\ tasks[t].exec # Null
    /\ tasks[t].exec.settled = "rejected"
    /\ tasks[t].exec.message = "Command failed"

\* the tracer of slot t was killed at the timeout
TimedOut(task) ==
    /\ task.exec # Null
    /\ task.exec.settled = "rejected"
    /\ task.exec.message = "timeout"

\* what execFileAsync resolves with when the same stdout comes with exit code 0
ExitedZero(result) == [settled |-> "resolved", stdout |-> result.stdout]

(* C21: the tracer's exit code does not influence the outcome: a run that  *)
(* exits non-zero is answered as a run that printed the same stdout and    *)
(* exited with code 0 (same payload; for /debug/start a sessionId exactly  *)
(* when the exit-0 run gets one).                                          *)
C21_ExitCodeIsNotInterpreted ==
    \A t \in DOMAIN tasks :
        ExitedNonZero(t) =>
            IF tasks[t].handler = "executeCode"
            THEN tasks[t].res = ExecuteAfterExec(ExitedZero(tasks[t].exec))
            ELSE LET zero == DebugAfterExec(tasks[t], ExitedZero(tasks[t].exec), "u1")
                 IN  IF zero.created
                     THEN "sessionId" \in DOMAIN tasks[t].res
                     ELSE tasks[t].res = zero.res

(* C22: when the tracer's stdout cannot be parsed as JSON the request is   *)
(* answered HTTP 200 with error=true and the raw stdout text as message.   *)
C22_UnparsableStdoutIsTheMessage ==
    \A t \in DOMAIN tasks :
        (/\ tasks[t].exec # Null
         /\ tasks[t].exec.settled = "resolved"
         /\ ~tasks[t].exec.stdout.json)
            => /\ tasks[t].res.status = 200
               /\ tasks[t].res.error
               /\ tasks[t].res.message = tasks[t].exec.stdout.text

(* C23: when the tracer is killed at its timeout, python /execute answers  *)
(* HTTP 200 with error=true, an empty events list and a message, whatever  *)
(* the tracer had printed, and /debug/start stores no session.             *)
C23_TimeoutYieldsErrorWithoutEvents ==
    [][\A t \in Slots :
           (ExecSettles(t) /\ TimedOut(tasks'[t])) =>
               /\ debugSessions' = debugSessions
               /\ tasks'[t].res.status = 200
               /\ tasks'[t].res.error
               /\ "message" \in DOMAIN tasks'[t].res
               /\ "sessionId" \notin DOMAIN tasks'[t].res
               /\ tasks'[t].handler = "executeCode"
                      => tasks'[t].res.events = <<>>]_vars

\* a python /execute whose tracer had printed a document with events when it
\* was killed, and a /debug/start that timed out the same way
C23_Witness ==
    \E t1, t2 \in DOMAIN tasks :
        /\ tasks[t1].handler = "executeCode" /\ tasks[t1].pc = "done"
        /\ TimedOut(tasks[t1])
        /\ tasks[t1].exec.stdout.json
        /\ tasks[t1].exec.stdout.doc.traces # <<>>
        /\ tasks[t1].res.events = <<>>
        /\ tasks[t2].handler = "startDebugSession" /\ tasks[t2].pc = "done"
        /\ TimedOut(tasks[t2])
        /\ tasks[t2].exec.stdout.json
        /\ tasks[t2].exec.stdout.doc.status = "ok"
        /\ DOMAIN debugSessions = {}

\* the temp file of a handler that has drawn its uniqueId
TempFile(t) == FilePath(tasks[t].uniqueId)

(* C28: concurrent Lang-B requests each use a temp file path of their own: *)
(* no tracer reads source another request wrote, and no unlink removes a   *)
(* file the tracer of another request has yet to read.                     *)
C28_TempFilesAreNotShared ==
    /\ \A t1, t2 \in DOMAIN tasks :
           (t1 # t2 /\ tasks[t1].uniqueId # "") =>
               tasks[t1].uniqueId # tasks[t2].uniqueId
    /\ \A t \in DOMAIN tasks :
           /\ tasks[t].read # "" => tasks[t].read = tasks[t].code
           /\ (tasks[t].pc = "exec" /\ tasks[t].read = "")
                  => /\ TempFile(t) \in DOMAIN files
                     /\ files[TempFile(t)] = tasks[t].code

\* one request has unlinked its file after its tracer read it, while the
\* tracer of the other request has still to read the file written for it
C28_Witness ==
    \E t1, t2 \in DOMAIN tasks :
        /\ t1 # t2
        /\ tasks[t1].pc = "done" /\ tasks[t1].read = tasks[t1].code
        /\ tasks[t1].read # ""
        /\ tasks[t2].pc = "exec" /\ tasks[t2].read = ""
        /\ tasks[t1].handler # tasks[t2].handler
        /\ DOMAIN files = {TempFile(t2)}

\* the /execute request of slot t is one executeCode refuses
RefusedByExecuteCode(task) ==
    \/ task.language = ""
    \/ IF task.language = "javascript" THEN task.code = <<>> ELSE task.code = ""
    \/ task.language \notin {"javascript", "python"}

(* C24: executeCode answers 400, without evaluating code, writing a temp   *)
(* file or spawning a subprocess, exactly when language or code is missing *)
(* or empty or language is neither 'javascript' nor 'python'; every other  *)
(* response it sends is HTTP 200, failures being told by the error flag.   *)
C24_ExecuteRefusesExactlyBadRequests ==
    \A t \in DOMAIN tasks :
        tasks[t].handler = "executeCode" =>
            IF RefusedByExecuteCode(tasks[t])
            THEN /\ tasks[t].pc = "done"
                 /\ tasks[t].res.status = 400
                 /\ DOMAIN tasks[t].res = {"status", "message"}
                 /\ tasks[t].uniqueId = ""
                 /\ tasks[t].argv = <<>>
                 /\ tasks[t].exec = Null
            ELSE /\ tasks[t].res.status \in {0, 200}
                 /\ tasks[t].pc = "done" => /\ tasks[t].res.status = 200
                                            /\ "error" \in DOMAIN tasks[t].res

\* a refused request next to a javascript request whose program threw
C24_Witness ==
    \E t1, t2 \in DOMAIN tasks :
        /\ tasks[t1].handler = "executeCode" /\ tasks[t1].language = "ruby"
        /\ tasks[t1].res = ErrorHandler(400, "Unsupported language.")
        /\ tasks[t2].handler = "executeCode" /\ tasks[t2].language = "javascript"
        /\ tasks[t2].code = SourceS2
        /\ tasks[t2].res.status = 200 /\ tasks[t2].res.error
        /\ DOMAIN files = {}

\* the javascript requests that were answered with events
ScriptsAnswered ==
    {t \in DOMAIN tasks : /\ tasks[t].language = "javascript"
                          /\ tasks[t].res.status = 200}

\* the places of the Error events in an events array
ErrorEvents(events) == {i \in 1..Len(events) : events[i].event = "error"}

\* the events the hooks recorded when the program of code was run
Recorded(code, k) ==
    IF InstrumentJavaScript(code).ok
    THEN RunInContext(InstrumentJavaScript(code).text, k).events
    ELSE <<>>

(* C25: a javascript /execute response has error=true if and only if its   *)
(* events end with exactly one Error event that carries the failure        *)
(* message; the Step and Log events recorded before the failure are kept   *)
(* in order ahead of it, and a response with error=false has no Error      *)
(* event.                                                                  *)
C25_ErrorFlagIffFinalErrorEvent ==
    \A t \in ScriptsAnswered :
        LET events == tasks[t].res.events
        IN  IF tasks[t].res.error
            THEN /\ ErrorEvents(events) = {Len(events)}
                 /\ "message" \in DOMAIN events[Len(events)]
                 /\ \E k \in 1..MaxIterations :
                        SubSeq(events, 1, Len(events) - 1) = Recorded(tasks[t].code, k)
            ELSE ErrorEvents(events) = {}

\* the text of slot t holds something the parser rejects
Unparsable(code) == \E i \in 1..Len(code) : code[i].type = "BadToken"

(* C26: when the javascript source cannot be parsed, /execute answers HTTP *)
(* 200 with error=true and the parser's message, and the events hold no    *)
(* Step or Log event: no user code was run.                                *)
C26_ParseFailureRunsNothing ==
    \A t \in DOMAIN tasks :
        (tasks[t].language = "javascript" /\ Unparsable(tasks[t].code)) =>
            /\ tasks[t].pc = "done"
            /\ tasks[t].res.status = 200
            /\ tasks[t].res.error
            /\ tasks[t].res.events =
                   <<[event |-> "error", message |-> <<"Unexpected", "token">>]>>

\* a text with a statement that could run ahead of the rejected one
C26_Witness ==
    \E t \in DOMAIN tasks :
        /\ tasks[t].language = "javascript"
        /\ Len(tasks[t].code) = 2
        /\ tasks[t].code[1].type = "ExpressionStatement"
        /\ tasks[t].code[2].type = "BadToken"
        /\ tasks[t].pc = "done"
        /\ Len(tasks[t].res.events) = 1

(* C27: every javascript /execute request eventually produces a response,  *)
(* also when the program does not finish: the deadline fires and the       *)
(* events so far are returned with error=true.                             *)
C27_EveryScriptRequestIsAnswered ==
    \A t \in Slots :
        (t \in DOMAIN tasks) ~> (t \in DOMAIN tasks /\ tasks[t].res.status # 0)

\* the Step events of an events array
StepEvents(events) == SelectSeq(events, LAMBDA e : e.event = "step")

\* instrumentJavaScript applied to its own output
InstrumentedTwice(code) == InstrumentJavaScript(InstrumentJavaScript(code).text)

(* C29: instrumentJavaScript applied to its own output does not stack      *)
(* trace probes: running instrument(instrument(p)) records the same Step   *)
(* events as running instrument(p), for every program p that parses.       *)
C29_InstrumentTwiceRecordsSameSteps ==
    \A t \in DOMAIN tasks :
        (/\ tasks[t].language = "javascript"
         /\ tasks[t].code # <<>>
         /\ ~Unparsable(tasks[t].code)) =>
            \A k \in 1..MaxIterations :
                StepEvents(RunInContext(InstrumentedTwice(tasks[t].code).text, k).events)
                    = StepEvents(Recorded(tasks[t].code, k))

RECURSIVE Flatten(_)
\* the statements and comments of a text, those inside others included
Flatten(body) ==
    IF body = <<>> THEN <<>>
    ELSE LET node == Head(body)
         IN  (IF "body" \in DOMAIN node THEN <<node>> \o Flatten(node.body)
              ELSE <<node>>) \o Flatten(Tail(body))

\* the words of the comments of a text, and the strings of its declarations
CommentsOf(body) ==
    LET comments == SelectSeq(Flatten(body), LAMBDA n : n.type = "Comment")
    IN  [i \in 1..Len(comments) |-> comments[i].words]
DeclarationsOf(body) ==
    SelectSeq(Flatten(body), LAMBDA n : n.type = "VariableDeclaration")

(* C30: instrumentJavaScript rewrites the kind of every let/const          *)
(* declaration to var and leaves the words let and const inside string     *)
(* literals and comments as they are (comments are kept), so a logged      *)
(* string that holds 'let' is logged unchanged.                            *)
C30_OnlyDeclarationKindsAreRewritten ==
    \A t \in DOMAIN tasks :
        (/\ tasks[t].language = "javascript"
         /\ tasks[t].code # <<>>
         /\ ~Unparsable(tasks[t].code)) =>
            LET code == tasks[t].code
                text == InstrumentJavaScript(code).text
                before == DeclarationsOf(code)
                after == DeclarationsOf(text)
            IN  /\ CommentsOf(text) = CommentsOf(code)
                /\ Len(after) = Len(before)
                /\ \A i \in 1..Len(after) :
                       /\ after[i].kind = "var"
                       /\ after[i].name = before[i].name
                       /\ after[i].init = before[i].init
                /\ code = SourceS1 =>
                       SelectSeq(tasks[t].res.events, LAMBDA e : e.event = "log")
                           = <<[event |-> "log",
                                value |-> <<"let", "inside", "string">>]>>

\* the source of the test was run and answered without an error
C30_Witness ==
    \E t \in DOMAIN tasks :
        /\ tasks[t].language = "javascript"
        /\ tasks[t].code = SourceS1
        /\ tasks[t].res.status = 200
        /\ ~tasks[t].res.error
        /\ Len(StepEvents(tasks[t].res.events)) = 3

\* a text of declarations, assignments and console.log calls only
StraightLine(code) ==
    /\ code # <<>>
    /\ \A i \in 1..Len(code) :
           \/ code[i].type \in {"Comment", "VariableDeclaration"}
           \/ /\ code[i].type = "ExpressionStatement"
              /\ \/ code[i].expression = "assign"
                 \/ code[i].expression = "call" /\ code[i].callee = "console.log"

\* the statements of a text, and the lines they start on
StatementsOf(code) == SelectSeq(code, LAMBDA n : n.type # "Comment")
StatementLines(code) ==
    [i \in 1..Len(StatementsOf(code)) |-> StatementsOf(code)[i].line]

\* the line values of the Step events of an events array
StepLines(events) ==
    [i \in 1..Len(StepEvents(events)) |-> StepEvents(events)[i].line]

\* the javascript requests whose text is straight-line and that were answered
StraightLineAnswered ==
    {t \in ScriptsAnswered : StraightLine(tasks[t].code)}

(* C31: for a program of declarations and straight-line statements only,   *)
(* running the instrumented program records exactly one Step event per     *)
(* statement, and the Step line values are the 1-based start lines of the  *)
(* statements in source order.                                             *)
C31_OneStepPerStatement ==
    \A t \in StraightLineAnswered :
        StepLines(tasks[t].res.events) = StatementLines(tasks[t].code)

(* C31 as amended: the same for such a program that runs to its end        *)
(* without throwing; when a statement throws, the Step events are those of *)
(* the statements up to and including the one that threw.                  *)
C31_OneStepPerStatementRun ==
    \A t \in StraightLineAnswered :
        LET lines == StatementLines(tasks[t].code)
            steps == StepLines(tasks[t].res.events)
        IN  IF tasks[t].res.error
            THEN /\ Len(steps) >= 1 /\ Len(steps) <= Len(lines)
                 /\ steps = SubSeq(lines, 1, Len(steps))
            ELSE steps = lines

\* the source of the test ran to its end: three statements, three steps
C31_Witness ==
    \E t \in StraightLineAnswered :
        /\ tasks[t].code = SourceS1
        /\ ~tasks[t].res.error
        /\ StepLines(tasks[t].res.events) = <<2, 3, 4>>

\* statement n of a text gives a variable (an identifier) a value
AssignsVariable(n) ==
    \/ n.type = "VariableDeclaration"
    \/ /\ n.type = "ExpressionStatement"
       /\ n.expression = "assign"
       /\ n.target.type = "Identifier"
VariableOf(n) == IF n.type = "VariableDeclaration" THEN n.name ELSE n.target.name
AssignedOf(n) == IF n.type = "VariableDeclaration" THEN n.init ELSE n.value

(* C32: when instrumented code executes a top-level declaration or         *)
(* assignment of a variable x, x becomes an own key of sandbox, so every   *)
(* Step event recorded afterwards has locals holding x with the value x    *)
(* had when that Step was recorded.                                        *)
C32_LocalsHoldAssignedVariables ==
    \A t \in StraightLineAnswered :
        LET stmts == StatementsOf(tasks[t].code)
            steps == StepEvents(tasks[t].res.events)
        IN  \A i \in 1..Len(steps) : \A j \in 1..(i - 1) :
                AssignsVariable(stmts[j]) =>
                    /\ VariableOf(stmts[j]) \in DOMAIN steps[i].locals
                    /\ (\A l \in (j + 1)..(i - 1) :
                            ~(/\ AssignsVariable(stmts[l])
                              /\ VariableOf(stmts[l]) = VariableOf(stmts[j])))
                           => steps[i].locals[VariableOf(stmts[j])]
                                  = ValueOf(AssignedOf(stmts[j]))

(* C33: on a session whose events array is empty, each of step, continue,  *)
(* next and out returns done=true with a null event and leaves the pointer *)
(* at -1, however many commands are issued.                                *)
C33_EmptySessionReturnsNullEvent ==
    \A id \in DOMAIN debugSessions : \A c \in NavCommands :
        ( /\ Handled(id, c)
          /\ debugSessions[id].events = <<>> )
        => /\ res.status = 200
           /\ res.done = TRUE
           /\ "event" \in DOMAIN res
           /\ res.event = Null
           /\ debugSessions[id].pointer = -1

(* C34: the done flag means the same for all navigation commands: whenever *)
(* step, continue, next or out returns done=false, the session pointer is  *)
(* strictly below the last index, so an immediately following step command *)
(* returns a non-null event.                                               *)
C34_NotDoneMeansEventsRemain ==
    [][\A id \in DOMAIN debugSessions : \A c \in NavCommands :
          ( /\ Handles(id, c)
            /\ res'.status = 200
            /\ res'.done = FALSE )
          => /\ debugSessions'[id].pointer
                    < LastIndex(debugSessions'[id].events)
             /\ StepCommand(debugSessions'[id]).res.event # Null
      ]_vars

(* C35: each command changes only its own part of the addressed session:   *)
(* step, continue, next and out leave the breakpoint set unchanged,        *)
(* setBreakpoint leaves the pointer unchanged, and no command ever changes *)
(* the events array of a session after the session was created.            *)
C35_CommandsChangeOnlyTheirPart ==
    [][\A id \in DOMAIN debugSessions :
          /\ id \in DOMAIN debugSessions'
          /\ debugSessions'[id].events = debugSessions[id].events
          /\ \A c \in NavCommands :
                 Handles(id, c) =>
                     debugSessions'[id].breakpoints = debugSessions[id].breakpoints
          /\ Handles(id, "setBreakpoint") =>
                 debugSessions'[id].pointer = debugSessions[id].pointer
      ]_vars

\* a line was added to a session that navigation had moved to its last event
C35_Witness ==
    \E id \in DOMAIN debugSessions :
        /\ Handled(id, "setBreakpoint")
        /\ req.line.type = "number"
        /\ Len(debugSessions[id].events) = MaxEvents
        /\ debugSessions[id].pointer = LastIndex(debugSessions[id].events)
        /\ Len(debugSessions[id].breakpoints) = 2
        /\ res.breakpoints = debugSessions[id].breakpoints

---------------------------------------------------------------------------
(* Two debug sessions side by side: the server of Spec with two ids for    *)
(* uuidv4() to draw from and the traces of the scenarios.                  *)

SessionUuids == {"u1", "u2"}

StartSessions ==
    /\ SessionUuids \ DOMAIN debugSessions # {}
    /\ UNCHANGED inflight
    /\ \E breakpoints \in {<<>>, <<1>>}, traces \in ScenarioTraces :
           StartDebugSessionFrom(SessionUuids, "python", breakpoints,
                                 OkOutcome(traces))

CommandSessions ==
    /\ UNCHANGED inflight
    /\ \E sessionId \in SessionUuids, command \in Commands :
           \E line \in IF command = "setBreakpoint" THEN LineArgs ELSE {NoLine} :
               DebuggerCommand(sessionId, command, line)

NextSessions == StartSessions \/ FailedStartRequest \/ CommandSessions

SpecSessions == Init /\ [][NextSessions]_vars

(* C36: sessions are isolated: a debuggerCommand addressed to one          *)
(* sessionId leaves the pointer, breakpoints and events of every other     *)
(* session unchanged, and a startDebugSession request never modifies or    *)
(* replaces an existing session.                                           *)
C36_SessionsAreIsolated ==
    [][\A id \in DOMAIN debugSessions :
          /\ id \in DOMAIN debugSessions'
          /\ ( \/ req'.handler = "startDebugSession"
               \/ /\ req'.handler = "debuggerCommand"
                  /\ req'.sessionId # id )
             => debugSessions'[id] = debugSessions[id]
      ]_vars

\* two sessions over the same trace; a step on u1 moved it past u2, which
\* a breakpoint added later tells apart as well
C36_Witness ==
    /\ DOMAIN debugSessions = SessionUuids
    /\ Handled("u1", "step")
    /\ debugSessions["u1"].events = debugSessions["u2"].events
    /\ debugSessions["u1"].pointer = 2
    /\ debugSessions["u2"].pointer = 0
    /\ debugSessions["u1"].breakpoints = <<>>
    /\ debugSessions["u2"].breakpoints = <<1, 2>>

---------------------------------------------------------------------------
(* The terminal of the client: CodeEditor's consoleOutput and runError     *)
(* state, the output and error props it renders TerminalPane with, and     *)
(* TerminalPane's output effect and Clear button. A text is the sequence   *)
(* of its characters; "ESC" is the one character \x1b.                     *)

\* the variables of the server, which the client specifications leave alone
server == <<debugSessions, req, res, tasks, files, serial>>

\* 'Execution complete.'
ExecutionComplete ==
    <<"E", "x", "e", "c", "u", "t", "i", "o", "n", " ",
      "c", "o", "m", "p", "l", "e", "t", "e", ".">>

\* the outputs a run can report: '', 'hi', the default text followed by a
\* line, and four lines that are longer than the default text
Outputs ==
    { <<>>,
      <<"h", "i">>,
      ExecutionComplete \o <<"\n", "4", "2">>,
      <<"l", "i", "n", "e", "1", "\n", "l", "i", "n", "e", "2", "\n",
        "l", "i", "n", "e", "3", "\n", "l", "i", "n", "e", "4">> }

\* the error messages a run can report
Errors ==
    { <<"b", "o", "o", "m">>,
      <<"x", " ", "i", "s", " ", "n", "o", "t", " ",
        "d", "e", "f", "i", "n", "e", "d">> }

\* a string held where null can be held as well
Str(chars) == [text |-> chars]

\* value || fallback, for a value that is a string or null
OrElse(value, fallback) ==
    IF value # Null /\ value.text # <<>> THEN value.text ELSE fallback

\* text.replace(/\n/g, '\r\n')
RECURSIVE CrLf(_)
CrLf(text) ==
    IF text = <<>> THEN <<>>
    ELSE (IF Head(text) = "\n" THEN <<"\r", "\n">> ELSE <<Head(text)>>)
             \o CrLf(Tail(text))

\* the props CodeEditor renders TerminalPane with
TerminalProps(consoleOutput, runError) ==
    [output |-> OrElse(Str(consoleOutput), ExecutionComplete),
     error |-> OrElse(runError, <<>>)]

\* what the output effect is to show: `\x1b[31m${error}\x1b[0m` or output
TextOf(props) ==
    IF props.error # <<>>
    THEN <<"ESC", "[", "3", "1", "m">> \o props.error \o <<"ESC", "[", "0", "m">>
    ELSE props.output

\* the output effect, run with the props of the render, on the terminal
\* side of the component: prevOutputRef.current and what terminalRef.current
\* was given since its last clear()
OutputEffect(term, props) ==
    IF props.output = <<>> /\ props.error = <<>>
    THEN [written |-> <<>>, prevOutputRef |-> <<>>]
    ELSE LET text == TextOf(props)
             \* text.slice(prevOutputRef.current.length)
             newText == SubSeq(text, Len(term.prevOutputRef) + 1, Len(text))
         IN  IF newText # <<>>
             THEN [written |-> term.written \o CrLf(newText),
                   prevOutputRef |-> text]
             ELSE term

\* CodeEditor sets its state and renders; the output effect runs when the
\* output or the error prop differs from the one of the last render
Render(term, consoleOutput, runError, isRunning) ==
    LET before == TerminalProps(client.consoleOutput, client.runError)
        props == TerminalProps(consoleOutput, runError)
        after == IF props # before THEN OutputEffect(term, props) ELSE term
    IN  [consoleOutput |-> consoleOutput, runError |-> runError,
         isRunning |-> isRunning,
         written |-> after.written,
         prevOutputRef |-> after.prevOutputRef]

\* the component after its first render: the output effect ran on the
\* default text
InitTerminal ==
    /\ debugSessions = [id \in {} |-> Null]
    /\ req = [handler |-> "none"]
    /\ res = [status |-> 0]
    /\ tasks = NoTasks
    /\ files = NoFiles
    /\ serial = Null
    /\ client = [consoleOutput |-> <<>>, runError |-> Null,
                 isRunning |-> FALSE,
                 written |-> CrLf(ExecutionComplete),
                 prevOutputRef |-> ExecutionComplete]

\* runCode up to its request
RunCode ==
    /\ ~client.isRunning
    /\ client' = Render(client, <<>>, Null, TRUE)
    /\ UNCHANGED server

\* runCode from the answer of its request on
RunSettles ==
    /\ client.isRunning
    /\ \/ \E output \in Outputs :
              client' = Render(client, output, client.runError, FALSE)
       \/ \E error \in Errors :
              client' = Render(client, client.consoleOutput, Str(error), FALSE)
    /\ UNCHANGED server

\* the message handler, on a js-output message of the preview frame
HandleMessage ==
    /\ \/ \E output \in Outputs \ {<<>>} :
              client' = Render(client, output, Null, client.isRunning)
       \/ \E error \in Errors :
              client' = Render(client, <<>>, Str(error), client.isRunning)
    /\ UNCHANGED server

ResetCodeOutput ==
    /\ client' = Render(client, <<>>, Null, client.isRunning)
    /\ UNCHANGED server

\* the Clear button of TerminalPane: handleClear, then onClear
HandleClear ==
    /\ client' = Render([written |-> <<>>, prevOutputRef |-> <<>>],
                        <<>>, Null, client.isRunning)
    /\ UNCHANGED server

NextTerminal ==
    RunCode \/ RunSettles \/ HandleMessage \/ ResetCodeOutput \/ HandleClear

SpecTerminal == InitTerminal /\ [][NextTerminal]_vars

(* C37: after any sequence of output/error prop updates and Clear actions, *)
(* the text TerminalPane has written to the terminal since the last clear  *)
(* equals the current text to display (the error when set, otherwise the   *)
(* output); in particular a different output that does not extend the      *)
(* previous one, or an error, is shown in full.                            *)
C37_TerminalShowsCurrentText ==
    client.written
        = CrLf(TextOf(TerminalProps(client.consoleOutput, client.runError)))

---------------------------------------------------------------------------
(* The file list of CodeEditor: the files state, selectedFileId and the    *)
(* handlers of the file panel, the language selector, the editor and the   *)
(* Reset button. An id `${prefix}-${n}` is the record of its two parts;    *)
(* the code of a file is "default", '' or what the editor reported.        *)

\* the last value of Date.now() the model lets addFile see
MaxNow == 3

FileId(prefix, n) == [prefix |-> prefix, n |-> n]

CreateInitialFiles ==
    << [id |-> FileId("html", 1), language |-> "html", code |-> "default"],
       [id |-> FileId("css", 1), language |-> "css", code |-> "default"],
       [id |-> FileId("js", 1), language |-> "javascript", code |-> "default"],
       [id |-> FileId("cpp", 1), language |-> "cpp", code |-> "default"],
       [id |-> FileId("py", 1), language |-> "python", code |-> "default"] >>

\* the values of the language prop and of the language selector
Languages == {"html", "css", "javascript", "cpp", "python"}

\* files.find((f) => f[key] === value), as the index of the file found,
\* 0 when there is none
FindIndex(fileList, key, value) ==
    LET found == {i \in 1..Len(fileList) : fileList[i][key] = value}
    IN  IF found = {} THEN 0 ELSE MinOf(found)

\* the initial value of selectedFileId
InitialSelectedFileId(language) ==
    LET match == FindIndex(CreateInitialFiles, "language", language)
    IN  IF match # 0 THEN CreateInitialFiles[match].id
        ELSE CreateInitialFiles[1].id

\* files.find((f) => f.id === selectedFileId) || files[0]
SelectedFile(editor) ==
    LET match == FindIndex(editor.files, "id", editor.selectedFileId)
    IN  IF match # 0 THEN editor.files[match] ELSE editor.files[1]

\* the extension map of addFile; an extension outside it has no language
ExtensionMap ==
    [html |-> "html", htm |-> "html", css |-> "css", js |-> "javascript",
     jsx |-> "javascript", py |-> "python", cpp |-> "cpp", cxx |-> "cpp"]

\* the answers to the prompt of addFile, by their extension; Null when the
\* prompt was cancelled
PromptAnswers == {Null, Str("js"), Str("py"), Str("txt")}

\* what the editor reports to onChange
NewCodes == {"edited"}

InitEditor ==
    /\ debugSessions = [id \in {} |-> Null]
    /\ req = [handler |-> "none"]
    /\ res = [status |-> 0]
    /\ tasks = NoTasks
    /\ files = NoFiles
    /\ serial = Null
    /\ \E language \in Languages \cup {"java"} :
           client = [files |-> CreateInitialFiles,
                     selectedFileId |-> InitialSelectedFileId(language),
                     now |-> 2]

\* handleCodeChange as a function of the state
CodeChanged(editor, newCode) ==
    [editor EXCEPT !.files =
        [i \in 1..Len(editor.files) |->
            IF editor.files[i].id = editor.selectedFileId
            THEN [editor.files[i] EXCEPT !.code = newCode]
            ELSE editor.files[i]]]

HandleCodeChange ==
    /\ \E newCode \in NewCodes : client' = CodeChanged(client, newCode)
    /\ UNCHANGED server

AddFile ==
    /\ client.now <= MaxNow
    /\ \E name \in PromptAnswers :
           IF name = Null THEN client' = client
           ELSE IF name.text \notin DOMAIN ExtensionMap THEN client' = client
           ELSE LET lang == ExtensionMap[name.text]
                    id == FileId(lang, client.now)
                IN  client' = [files |-> Append(client.files,
                                   [id |-> id, language |-> lang, code |-> ""]),
                               selectedFileId |-> id,
                               now |-> client.now + 1]
    /\ UNCHANGED server

\* the delete button of a file; it is rendered when files.length > 1
DeleteFile ==
    /\ Len(client.files) > 1
    /\ \E i \in 1..Len(client.files) :
           LET id == client.files[i].id
               filtered == SelectSeq(client.files, LAMBDA f : f.id # id)
           IN  client' = [client EXCEPT
                   !.files = filtered,
                   !.selectedFileId =
                       IF client.selectedFileId = id /\ Len(filtered) > 0
                       THEN filtered[1].id ELSE @]
    /\ UNCHANGED server

\* a click on a file of the list
SelectFile ==
    /\ \E i \in 1..Len(client.files) :
           client' = [client EXCEPT !.selectedFileId = client.files[i].id]
    /\ UNCHANGED server

HandleLanguageChange ==
    /\ \E lang \in Languages :
           LET file == FindIndex(client.files, "language", lang)
           IN  client' = IF file # 0
                         THEN [client EXCEPT
                                  !.selectedFileId = client.files[file].id]
                         ELSE client
    /\ UNCHANGED server

ResetCode ==
    /\ client' = [client EXCEPT !.files = CreateInitialFiles]
    /\ UNCHANGED server

NextEditor ==
    \/ AddFile \/ DeleteFile \/ SelectFile \/ HandleLanguageChange
    \/ ResetCode \/ HandleCodeChange

SpecEditor == InitEditor /\ [][NextEditor]_vars

(* C38: in CodeEditor, after any sequence of add-file, delete-file,        *)
(* select-file, language-change and reset actions, the file list is        *)
(* non-empty and selectedFileId is the id of a file in the list, so an     *)
(* edit made in the editor always updates the code of the file that is     *)
(* displayed.                                                              *)
C38_SelectedFileIsInTheList ==
    /\ Len(client.files) > 0
    /\ \E i \in 1..Len(client.files) : client.files[i].id = client.selectedFileId
    /\ \A newCode \in NewCodes :
           SelectedFile(CodeChanged(client, newCode)).code = newCode

====
